---------------------------- MODULE Spec2Model ----------------------------
(***************************************************************************)
(* Spikeling: the command dispatchers of the two transports                *)
(* (Serial_functions.h, WiFi_functions.h), the preset table                *)
(* (Izhikevich_parameters.h), the globals (General_settings.h) and the     *)
(* per-tick update_* functions (Core_functions.h).                         *)
(*                                                                         *)
(* Numbers.  A C++ float is modelled in fixed point: the integer n stands  *)
(* for n / FP (thousandths).  C++ int fields are plain integers.  A        *)
(* 32-bit unsigned value is the record [hi, lo] of its two 16-bit halves,  *)
(* because TLC's integers are themselves 32-bit signed.                    *)
(***************************************************************************)
EXTENDS Integers, Sequences, FiniteSets, TLC

(***************************************************************************)
(* Bounds of the model (not program constants).                            *)
(***************************************************************************)
\* Spec: number of operations (commands and update_* calls) in one run.
MaxOps == 2

\* SpecNeuron: number of operations in one run, and how many of the first
\* ones may be commands (the rest are integration steps).
MaxNeuronOps == 40

MaxNeuronCmds == 3

\* SpecTelemetry: number of operations in one run.
MaxTelemetryOps == 5

\* SpecStream: number of messages and calls in one run.
MaxStreamOps == 8

\* SpecRace: number of handlers and tick functions started in one run.
MaxRaceOps == 4

\* SpecPhotodiode: number of lines and ticks in one run, and how many of
\* the first of them may be lines.
MaxPDTicks == 11

MaxPDCmds == 2

\* SpecStim: number of lines and ticks in one run.
MaxStimOps == 9

\* SpecAuto: number of ticks and lines in one run, and how many of the
\* first of them may be lines.
MaxAutoTicks == 1030

MaxAutoCmds == 2

(***************************************************************************)
(* Arithmetic helpers.                                                     *)
(***************************************************************************)
\* Fixed-point unit (thousandths).
FP == 10 * 10 * 10

Abs(x) == IF x < 0 THEN -x ELSE x

Sgn(x) == IF x < 0 THEN -1 ELSE 1

\* C++ division / conversion to int: the quotient truncated toward zero.
TruncDiv(x, y) == Sgn(x) * Sgn(y) * (Abs(x) \div Abs(y))

\* Product of two fixed-point numbers; the halves are multiplied separately
\* so that no intermediate product leaves TLC's integer range.
MulAbs(x, y) ==
    LET xh == x \div FP
        xl == x % FP
        yh == y \div FP
        yl == y % FP
    IN  xh * yh * FP + xh * yl + xl * yh + (xl * yl) \div FP

MulFP(x, y) == Sgn(x) * Sgn(y) * MulAbs(Abs(x), Abs(y))

\* An int converted to a 32-bit unsigned (uint32_t, std::size_t on the
\* ESP32): its value modulo 2^32, kept as two 16-bit halves.
Half == 256 * 256

ToUint32(i) == [hi |-> (i \div Half) % Half, lo |-> i % Half]

(***************************************************************************)
(* Program constants (General_settings.h).                                 *)
(***************************************************************************)
bits10 == 1023

bits12 == 4095

PD_WindowSize == 10

\* pot.offset = bits12/15 (integer division)
pot == [offset |-> bits12 \div 15]

LOW == 0

HIGH == 1

(***************************************************************************)
(* Izhikevich_parameters.h: the preset table, in thousandths.              *)
(***************************************************************************)
IzhikevichModelCount == 20

izhikevich == <<
    [a |->   20, b |->   200, c |-> -65000, d |->   6000, v_rest |-> -70000],
    [a |->   20, b |->   250, c |-> -65000, d |->   6000, v_rest |-> -64000],
    [a |->   20, b |->   200, c |-> -50000, d |->   2000, v_rest |-> -70000],
    [a |->   20, b |->   250, c |-> -55000, d |->     50, v_rest |-> -64000],
    [a |->   20, b |->   200, c |-> -55000, d |->   4000, v_rest |-> -70000],
    [a |->   10, b |->   200, c |-> -65000, d |->   8000, v_rest |-> -70000],
    [a |->   20, b |->  -100, c |-> -55000, d |->   6000, v_rest |-> -60000],
    [a |->  200, b |->   260, c |-> -65000, d |->      0, v_rest |-> -64000],
    [a |->   20, b |->   200, c |-> -65000, d |->   6000, v_rest |-> -70000],
    [a |->   50, b |->   260, c |-> -60000, d |->      0, v_rest |-> -62000],
    [a |->  100, b |->   260, c |-> -60000, d |->  -1000, v_rest |-> -62000],
    [a |->   20, b |->  -100, c |-> -55000, d |->   6000, v_rest |-> -60000],
    [a |->   30, b |->   250, c |-> -60000, d |->   4000, v_rest |-> -64000],
    [a |->   30, b |->   250, c |-> -52000, d |->      0, v_rest |-> -64000],
    [a |->   30, b |->   250, c |-> -60000, d |->   4000, v_rest |-> -64000],
    [a |->  100, b |->   260, c |-> -60000, d |->      0, v_rest |-> -61000],
    [a |-> 1000, b |->   200, c |-> -60000, d |-> -21000, v_rest |-> -70000],
    [a |->   20, b |->  1000, c |-> -55000, d |->   4000, v_rest |-> -65000],
    [a |->   20, b |->  1000, c |-> -60000, d |->   8000, v_rest |-> -63800],
    [a |->   26, b |-> -1000, c |-> -45000, d |->  -2000, v_rest |-> -63800] >>

\* A model (the enum value, 0-based) is looked up without any range check.
\* The handlers only pass values that clampToModel returned, so the read
\* outside the array is never reached; OutOfTable only gives the operator a
\* value there.
OutOfTable == [a |-> 0, b |-> 0, c |-> 0, d |-> 0, v_rest |-> 0]

getIzhikevichParams(model) ==
    IF model \in 0 .. (Len(izhikevich) - 1)
    THEN izhikevich[model + 1]
    ELSE OutOfTable

\* Faulty variant of clampToModel: the comparison is > instead of >=, so
\* the index one past the table is let through.
clampToModel_offByOne(index) ==
    IF ~(index.hi = 0 /\ index.lo <= IzhikevichModelCount) THEN 0
    ELSE index.lo

\* index is a std::size_t.
clampToModel(index) ==
    IF ~(index.hi = 0 /\ index.lo < IzhikevichModelCount) THEN 0 ELSE index.lo

TonicSpiking == 0

defaultModel == TonicSpiking

defaultParams == getIzhikevichParams(defaultModel)


(***************************************************************************)
(* The program's state: the inline globals of General_settings.h and       *)
(* WiFi_functions.h, the levels last written to the output pins, and what  *)
(* has been written to each transport.  wsLog, tickLog and race are not    *)
(* globals: wsLog records, for each call of wifiSendSamplePacket since the *)
(* stream settings last changed, whether it broadcast; tickLog records     *)
(* what each call of the tick function under observation read (the raw     *)
(* samples of update_Photodiode in SpecPhotodiode, the spike input, gain   *)
(* and decay of update_Synapse in SpecSynapse, the reading of              *)
(* update_Spike a run is built with in SpecSpike); race holds the          *)
(* positions and the registers of a tick function and of a command handler *)
(* that run concurrently (SpecRace).                                       *)
(***************************************************************************)
VARIABLES
    timing,          \* Timing: step_us (uint32_t)
    neuron,          \* NeuronModel
    currentModel,    \* IzhikevichModel currently active
    IC,              \* VoltageClamp
    noise,           \* NoiseGenerator (dist_mean, dist_variance: the Gaussian)
    PD,              \* Photodiode
    syn1,            \* Synapse 1
    syn2,            \* Synapse 2
    stim,            \* Stimulus
    Buzzer_enable,
    LED_enable,
    led_r_last,
    led_g_last,
    led_b_last,
    pin,             \* level last written to each output (GPIO, LEDC, DAC)
    serialOut,       \* what the handlers printed on Serial, oldest first
    wsOut,           \* what was sent over the WebSocket, oldest first
    wifiStream,      \* WifiStreamCtrl: enabled, decim, cnt
    pkt,             \* SamplePacket: the eight int16_t fields
    serialFrame,     \* the bytes of the last frame written to Serial
    wsLog,           \* 1 for a call that broadcast, 0 for one that did not
    tickLog,         \* what the observed tick function read, oldest first
    race,            \* positions and registers of the concurrent run
    nops             \* operations performed so far (bounds the runs)

vars == << timing, neuron, currentModel, IC, noise, PD, syn1, syn2, stim,
           Buzzer_enable, LED_enable, led_r_last, led_g_last, led_b_last,
           pin, serialOut, wsOut, wifiStream, pkt, serialFrame, wsLog, tickLog,
           race,
           nops >>

timingInit == [step_us |-> ToUint32(3000)]

neuronInit ==
    [ v             |-> defaultParams.v_rest,
      u             |-> 0,
      dt_ms         |-> FP \div 10,
      a             |-> defaultParams.a,
      b             |-> defaultParams.b,
      c             |-> defaultParams.c,
      d             |-> defaultParams.d,
      v_rest        |-> defaultParams.v_rest,
      Vm_min        |-> -110 * FP,
      Vm_max        |-> 100 * FP,
      Vm_spike      |-> -30 * FP,
      Vm_peak       |-> 30 * FP,
      v_out         |-> 0,
      total_current |-> 0,
      spike         |-> FALSE ]

ICInit ==
    [ value_currentIn |-> 0,
      current         |-> 0,
      pot_value       |-> 0,
      current_clamp   |-> 0,
      enable          |-> TRUE ]

noiseInit ==
    [ pot_value     |-> 0,
      amp           |-> 0,
      current       |-> 0,
      enable        |-> TRUE,
      mean          |-> 0,
      sigma         |-> 0,
      newSigma      |-> 0,
      var           |-> 0,
      dist_mean     |-> 0,
      dist_variance |-> 0 ]

PDInit ==
    [ pot_value       |-> 0,
      gain            |-> 0,
      amp             |-> FP,
      value           |-> 0,
      values          |-> [i \in 0 .. (PD_WindowSize - 1) |-> 0],
      counter         |-> 0,
      avgWindow       |-> PD_WindowSize,
      sum             |-> 0,
      average         |-> 0,
      decay           |-> 1,
      ampMin          |-> 0,
      recovery        |-> 25,
      polarity        |-> 1,
      current         |-> 0,
      gain_enable     |-> TRUE,
      decay_enable    |-> TRUE,
      recovery_enable |-> TRUE ]

\* syn1.decay and syn2.decay as initialised; the loop passes the same two
\* values to update_Synapse as defaultDecay.
defaultDecay1 == 995

defaultDecay2 == 990

synInit(decay) ==
    [ gain         |-> 0,
      pot_value    |-> 0,
      spikeState   |-> LOW,
      current      |-> 0,
      decay        |-> decay,
      Vm           |-> 0,
      Vm_input     |-> 0,
      gain_enable  |-> TRUE,
      decay_enable |-> TRUE ]

stimInit ==
    [ strPot               |-> 0,
      str_digital          |-> 0,
      str_analog           |-> 0,
      str_analog_min       |-> 5,
      freqPot              |-> 0,
      freq                 |-> 0,
      value_digital        |-> 0,
      value_analog         |-> 0,
      value_custom         |-> 0,
      counter              |-> 0,
      steps                |-> 0,
      dutyCycle            |-> 500,
      dutyCycle_Min        |-> 10,
      state                |-> 0,
      trigger              |-> 0,
      pwm                  |-> 0,
      dac                  |-> 0,
      strength_enable      |-> TRUE,
      frequency_enable     |-> TRUE,
      custom_enable        |-> TRUE,
      trigger_enable       |-> FALSE,
      serialTrigger_enable |-> FALSE ]

\* HardwareSettings() leaves every output low.
pinInit ==
    [ spike |-> LOW, led_r |-> 0, led_g |-> 0, led_b |-> 0,
      axon_d |-> LOW, stim_light |-> 0, dac_axon |-> 0, dac_stim |-> 0 ]

pktInit ==
    [ v_q |-> 0, stim_state |-> 0, Itot_q |-> 0, syn1_vm_q |-> 0,
      Isyn1_q |-> 0, syn2_vm_q |-> 0, Isyn2_q |-> 0, trigger_q |-> 0 ]

\* Nothing runs concurrently: both positions are "idle" and the registers
\* hold nothing of interest.
raceInit ==
    [ tick |-> "idle", tfn |-> "none", cmd |-> "idle", cfn |-> "none",
      x |-> 0, raw |-> 0, fromPot |-> FALSE, r1 |-> 0, r2 |-> 0,
      seen |-> << >> ]

Init ==
    /\ timing = timingInit
    /\ neuron = neuronInit
    /\ currentModel = defaultModel
    /\ IC = ICInit
    /\ noise = noiseInit
    /\ PD = PDInit
    /\ syn1 = synInit(defaultDecay1)
    /\ syn2 = synInit(defaultDecay2)
    /\ stim = stimInit
    /\ Buzzer_enable = TRUE
    /\ LED_enable = TRUE
    /\ led_r_last = 0
    /\ led_g_last = 0
    /\ led_b_last = 0
    /\ pin = pinInit
    /\ serialOut = << >>
    /\ wsOut = << >>
    /\ wifiStream = [enabled |-> FALSE, decim |-> 5, cnt |-> 0]
    /\ pkt = pktInit
    /\ serialFrame = << >>
    /\ wsLog = << >>
    /\ tickLog = << >>
    /\ race = raceInit
    /\ nops = 0

\* The globals as one value: the handlers below are functions from such a
\* value to the value they leave behind.
Cur ==
    [ timing |-> timing, neuron |-> neuron, currentModel |-> currentModel,
      IC |-> IC, noise |-> noise, PD |-> PD, syn1 |-> syn1, syn2 |-> syn2,
      stim |-> stim, Buzzer_enable |-> Buzzer_enable,
      LED_enable |-> LED_enable, led_r_last |-> led_r_last,
      led_g_last |-> led_g_last, led_b_last |-> led_b_last, pin |-> pin,
      serialOut |-> serialOut, wsOut |-> wsOut, wifiStream |-> wifiStream,
      pkt |-> pkt, serialFrame |-> serialFrame ]

\* The globals are left as in s.
GlobalsBecome(s) ==
    /\ timing' = s.timing
    /\ neuron' = s.neuron
    /\ currentModel' = s.currentModel
    /\ IC' = s.IC
    /\ noise' = s.noise
    /\ PD' = s.PD
    /\ syn1' = s.syn1
    /\ syn2' = s.syn2
    /\ stim' = s.stim
    /\ Buzzer_enable' = s.Buzzer_enable
    /\ LED_enable' = s.LED_enable
    /\ led_r_last' = s.led_r_last
    /\ led_g_last' = s.led_g_last
    /\ led_b_last' = s.led_b_last
    /\ pin' = s.pin
    /\ serialOut' = s.serialOut
    /\ wsOut' = s.wsOut
    /\ wifiStream' = s.wifiStream
    /\ pkt' = s.pkt
    /\ serialFrame' = s.serialFrame

\* The step of a handler or of a tick function that runs alone and leaves
\* the globals as in s.
Becomes(s) == GlobalsBecome(s) /\ UNCHANGED <<wsLog, tickLog, race>>

(***************************************************************************)
(* Serial_functions.h: the handlers of the line transport.                 *)
(*                                                                         *)
(* arg is what SCmd.next() returns for the token after the command name:   *)
(*   [has |-> FALSE, v |-> 0]   no token (NULL)                            *)
(*   [has |-> TRUE,  v |-> n]   the token, a decimal numeral of value n/FP *)
(***************************************************************************)
\* atof: the value of the numeral.
atof(v) == v

\* atoi: the digits before the decimal point.
atoi(v) == TruncDiv(v, FP)

\* param = val * scale, with scale = num/den.
Scaled(v, num, den) == TruncDiv(v * num, den)

\* Faulty variant of setFloatParam: the scale is not applied.
setFloatParam_unscaled(s, unit, flag, param, arg, num, den) ==
    LET s1 == [s EXCEPT ![unit][flag] = FALSE]
    IN  IF arg.has
        THEN [s1 EXCEPT ![unit][param] = atof(arg.v)]
        ELSE s1

\* setFloatParam(bool &enableFlag, float &param, float scale): the two
\* references are the fields flag and param of the global named unit.
setFloatParam(s, unit, flag, param, arg, num, den) ==
    LET s1 == [s EXCEPT ![unit][flag] = FALSE]
    IN  IF arg.has
        THEN [s1 EXCEPT ![unit][param] = Scaled(atof(arg.v), num, den)]
        ELSE s1

setIntParam(s, unit, flag, param, arg) ==
    LET s1 == [s EXCEPT ![unit][flag] = FALSE]
    IN  IF arg.has
        THEN [s1 EXCEPT ![unit][param] = atoi(arg.v)]
        ELSE s1

SetRefreshRate(s, arg) ==
    IF arg.has
    THEN [s EXCEPT !.timing.step_us = ToUint32(atoi(arg.v))]
    ELSE s

\* Faulty variant of SetNeuronModel: u is computed with the b of the preset
\* that was active before.
SetNeuronModel_staleB(s, model) ==
    LET p == getIzhikevichParams(model)
    IN  [s EXCEPT !.currentModel = model,
                  !.neuron.a = p.a,
                  !.neuron.b = p.b,
                  !.neuron.c = p.c,
                  !.neuron.d = p.d,
                  !.neuron.v_rest = p.v_rest,
                  !.neuron.v = p.v_rest,
                  !.neuron.u = MulFP(s.neuron.b, p.v_rest)]

\* Faulty variant of SetNeuronModel: v is reset to the resting potential
\* with its sign lost.
SetNeuronModel_signLost(s, model) ==
    LET p == getIzhikevichParams(model)
    IN  [s EXCEPT !.currentModel = model,
                  !.neuron.a = p.a,
                  !.neuron.b = p.b,
                  !.neuron.c = p.c,
                  !.neuron.d = p.d,
                  !.neuron.v_rest = p.v_rest,
                  !.neuron.v = Abs(p.v_rest),
                  !.neuron.u = MulFP(p.b, Abs(p.v_rest))]

\* Faulty variant of SetNeuronModel: a preset change also returns synapse 1
\* to its potentiometer and clears its current.
SetNeuronModel_clearing(s, model) ==
    LET p == getIzhikevichParams(model)
    IN  [s EXCEPT !.currentModel = model,
                  !.neuron.a = p.a,
                  !.neuron.b = p.b,
                  !.neuron.c = p.c,
                  !.neuron.d = p.d,
                  !.neuron.v_rest = p.v_rest,
                  !.neuron.v = p.v_rest,
                  !.neuron.u = MulFP(p.b, p.v_rest),
                  !.syn1.gain_enable = TRUE,
                  !.syn1.current = 0]

SetNeuronModel(s, model) ==
    LET p == getIzhikevichParams(model)
    IN  [s EXCEPT !.currentModel = model,
                  !.neuron.a = p.a,
                  !.neuron.b = p.b,
                  !.neuron.c = p.c,
                  !.neuron.d = p.d,
                  !.neuron.v_rest = p.v_rest,
                  !.neuron.v = p.v_rest,
                  !.neuron.u = MulFP(p.b, p.v_rest)]

NeuronOpening(s) == SetNeuronModel(s, TonicSpiking)

NeuronMode(s, arg) ==
    IF arg.has
    THEN SetNeuronModel(s, clampToModel(ToUint32(atoi(arg.v))))
    ELSE s

\* Faulty variant of StimFre_on: the period is recomputed at once.
StimFre_on_recomputing(s, arg) ==
    LET s1 == setIntParam(s, "stim", "frequency_enable", "freq", arg)
    IN  [s1 EXCEPT !.stim.steps = 510 + 5 * s1.stim.freq]

StimFre_on(s, arg) == setIntParam(s, "stim", "frequency_enable", "freq", arg)

StimFre_off(s) == [s EXCEPT !.stim.frequency_enable = TRUE]

StimStr_on(s, arg) ==
    LET s1 == [s EXCEPT !.stim.strength_enable = FALSE]
    IN  IF arg.has
        THEN [s1 EXCEPT !.stim.str_digital = atoi(arg.v),
                        !.stim.str_analog = atoi(arg.v)]
        ELSE s1

StimStr_off(s) == [s EXCEPT !.stim.strength_enable = TRUE]

StimCus_on(s, arg) == setIntParam(s, "stim", "custom_enable", "value_custom", arg)

\* Faulty variant of StimCus_off: the duty cycle starts again.
StimCus_off_resetting(s) ==
    [s EXCEPT !.stim.custom_enable = TRUE, !.stim.counter = 0]

StimCus_off(s) == [s EXCEPT !.stim.custom_enable = TRUE]

\* Faulty variant of Serial_Trigger: the flag is not set.
Serial_Trigger_noFlag(s) == s

Serial_Trigger(s) == [s EXCEPT !.stim.serialTrigger_enable = TRUE]

PDGain_on(s, arg) == setFloatParam(s, "PD", "gain_enable", "gain", arg, 1, 10)

PDGain_off(s) == [s EXCEPT !.PD.gain_enable = TRUE]

PDDecay_on(s, arg) == setFloatParam(s, "PD", "decay_enable", "decay", arg, 1, 1)

PDDecay_off(s) == [s EXCEPT !.PD.decay_enable = TRUE]

PDRecovery_on(s, arg) ==
    setFloatParam(s, "PD", "recovery_enable", "recovery", arg, 1, 1)

PDRecovery_off(s) == [s EXCEPT !.PD.recovery_enable = TRUE]

IC_on(s, arg) == setFloatParam(s, "IC", "enable", "current_clamp", arg, 1, 1)

\* Faulty variant of IC_off: the commanded value is dropped with the flag.
IC_off_zeroing(s) == [s EXCEPT !.IC.enable = TRUE, !.IC.current_clamp = 0]

IC_off(s) == [s EXCEPT !.IC.enable = TRUE]

Noise_on(s, arg) == setFloatParam(s, "noise", "enable", "current", arg, 1, 1)

Noise_off(s) == [s EXCEPT !.noise.enable = TRUE]

Syn1Gain_on(s, arg) == setFloatParam(s, "syn1", "gain_enable", "gain", arg, 1, 4)

Syn1Gain_off(s) == [s EXCEPT !.syn1.gain_enable = TRUE]

Syn1Decay_on(s, arg) ==
    setFloatParam(s, "syn1", "decay_enable", "decay", arg, 1, FP)

Syn1Decay_off(s) == [s EXCEPT !.syn1.decay_enable = TRUE]

Syn2Gain_on(s, arg) == setFloatParam(s, "syn2", "gain_enable", "gain", arg, 1, 4)

Syn2Gain_off(s) == [s EXCEPT !.syn2.gain_enable = TRUE]

Syn2Decay_on(s, arg) ==
    setFloatParam(s, "syn2", "decay_enable", "decay", arg, 1, FP)

Syn2Decay_off(s) == [s EXCEPT !.syn2.decay_enable = TRUE]

Buzzer_on(s) == [s EXCEPT !.Buzzer_enable = TRUE]

Buzzer_off(s) == [s EXCEPT !.Buzzer_enable = FALSE, !.pin.spike = LOW]

LED_on(s) == [s EXCEPT !.LED_enable = TRUE]

\* ledcWrite, not setLedc: led_*_last are not touched.
LED_off(s) ==
    [s EXCEPT !.LED_enable = FALSE,
              !.pin.led_r = 0, !.pin.led_g = 0, !.pin.led_b = 0]

\* The self-test blinks red, green, blue with digitalWrite and blocking
\* delays; it returns with the three channels low.
Connected(s) ==
    [s EXCEPT !.pin.led_r = LOW, !.pin.led_g = LOW, !.pin.led_b = LOW]

\* Faulty variant of Unrecognized: the unknown line also arms the trigger.
Unrecognized_triggering(s, cmd) ==
    [s EXCEPT !.serialOut = Append(@, <<"Unknown command: ", cmd>>),
              !.stim.serialTrigger_enable = TRUE]

Unrecognized(s, cmd) ==
    [s EXCEPT !.serialOut = Append(@, <<"Unknown command: ", cmd>>)]

\* SerialFunctions() registers the table; SerialCommand calls the handler
\* whose name equals the first token of the line, or the default handler.
SerialFunctions(s, cmd, arg) ==
    CASE cmd = "DT"   -> SetRefreshRate(s, arg)
      [] cmd = "NEU"  -> NeuronMode(s, arg)
      [] cmd = "FR1"  -> StimFre_on(s, arg)
      [] cmd = "FR0"  -> StimFre_off(s)
      [] cmd = "ST1"  -> StimStr_on(s, arg)
      [] cmd = "ST0"  -> StimStr_off(s)
      [] cmd = "SC1"  -> StimCus_on(s, arg)
      [] cmd = "SC0"  -> StimCus_off(s)
      [] cmd = "TR"   -> Serial_Trigger(s)
      [] cmd = "PG1"  -> PDGain_on(s, arg)
      [] cmd = "PG0"  -> PDGain_off(s)
      [] cmd = "PD1"  -> PDDecay_on(s, arg)
      [] cmd = "PD0"  -> PDDecay_off(s)
      [] cmd = "PR1"  -> PDRecovery_on(s, arg)
      [] cmd = "PR0"  -> PDRecovery_off(s)
      [] cmd = "IC1"  -> IC_on(s, arg)
      [] cmd = "IC0"  -> IC_off(s)
      [] cmd = "NO1"  -> Noise_on(s, arg)
      [] cmd = "NO0"  -> Noise_off(s)
      [] cmd = "SG11" -> Syn1Gain_on(s, arg)
      [] cmd = "SG10" -> Syn1Gain_off(s)
      [] cmd = "SD11" -> Syn1Decay_on(s, arg)
      [] cmd = "SD10" -> Syn1Decay_off(s)
      [] cmd = "SG21" -> Syn2Gain_on(s, arg)
      [] cmd = "SG20" -> Syn2Gain_off(s)
      [] cmd = "SD21" -> Syn2Decay_on(s, arg)
      [] cmd = "SD20" -> Syn2Decay_off(s)
      [] cmd = "BZ1"  -> Buzzer_on(s)
      [] cmd = "BZ0"  -> Buzzer_off(s)
      [] cmd = "LED1" -> LED_on(s)
      [] cmd = "LED0" -> LED_off(s)
      [] cmd = "CON"  -> Connected(s)
      [] OTHER        -> Unrecognized(s, cmd)

(***************************************************************************)
(* WiFi_functions.h: the dispatcher of the network transport.              *)
(***************************************************************************)
\* (int)v for a float v: the fraction is dropped.
IntOf(v) == TruncDiv(v, FP)

applyFloat(s, unit, flag, param, v, num, den) ==
    [s EXCEPT ![unit][flag] = FALSE, ![unit][param] = Scaled(v, num, den)]

applyInt(s, unit, flag, param, v) ==
    [s EXCEPT ![unit][flag] = FALSE, ![unit][param] = v]

\* The DT branch: the period is clamped to [1000, 1000000] us.
dispatchDT(s, v) ==
    LET val0 == IntOf(v)
        val1 == IF val0 < 1000 THEN 1000 ELSE val0
        val2 == IF val1 > 1000000 THEN 1000000 ELSE val1
    IN  [s EXCEPT !.timing.step_us = ToUint32(val2)]

\* The NEU branch.
dispatchNEU(s, v) == SetNeuronModel(s, clampToModel(ToUint32(IntOf(v))))

\* The ST1 branch.
dispatchST1(s, v) ==
    [s EXCEPT !.stim.strength_enable = FALSE,
              !.stim.str_digital = IntOf(v),
              !.stim.str_analog = IntOf(v)]

\* dispatchToken(cmd, hasVal, v): the first branch whose test holds runs and
\* returns; a token no branch accepts falls off the end (the report to the
\* client is commented out).
dispatchToken(s, cmd, hasVal, v) ==
    CASE cmd = "DT" /\ hasVal   -> dispatchDT(s, v)
      [] cmd = "NEU" /\ hasVal  -> dispatchNEU(s, v)
      [] cmd = "FR1" /\ hasVal  ->
            applyInt(s, "stim", "frequency_enable", "freq", IntOf(v))
      [] cmd = "FR0"            -> [s EXCEPT !.stim.frequency_enable = TRUE]
      [] cmd = "ST1" /\ hasVal  -> dispatchST1(s, v)
      [] cmd = "ST0"            -> [s EXCEPT !.stim.strength_enable = TRUE]
      [] cmd = "SC1" /\ hasVal  ->
            applyInt(s, "stim", "custom_enable", "value_custom", IntOf(v))
      [] cmd = "SC0"            -> [s EXCEPT !.stim.custom_enable = TRUE]
      [] cmd = "TR"             -> [s EXCEPT !.stim.serialTrigger_enable = TRUE]
      [] cmd = "PG1" /\ hasVal  ->
            applyFloat(s, "PD", "gain_enable", "gain", v, 1, 10)
      [] cmd = "PG0"            -> [s EXCEPT !.PD.gain_enable = TRUE]
      [] cmd = "PD1" /\ hasVal  ->
            applyFloat(s, "PD", "decay_enable", "decay", v, 1, 1)
      [] cmd = "PD0"            -> [s EXCEPT !.PD.decay_enable = TRUE]
      [] cmd = "PR1" /\ hasVal  ->
            applyFloat(s, "PD", "recovery_enable", "recovery", v, 1, 1)
      [] cmd = "PR0"            -> [s EXCEPT !.PD.recovery_enable = TRUE]
      [] cmd = "IC1" /\ hasVal  ->
            applyFloat(s, "IC", "enable", "current_clamp", v, 1, 1)
      [] cmd = "IC0"            -> [s EXCEPT !.IC.enable = TRUE]
      [] cmd = "NO1" /\ hasVal  ->
            applyFloat(s, "noise", "enable", "current", v, 1, 1)
      [] cmd = "NO0"            -> [s EXCEPT !.noise.enable = TRUE]
      [] cmd = "SG11" /\ hasVal ->
            applyFloat(s, "syn1", "gain_enable", "gain", v, 1, 4)
      [] cmd = "SG10"           -> [s EXCEPT !.syn1.gain_enable = TRUE]
      [] cmd = "SD11" /\ hasVal ->
            applyFloat(s, "syn1", "decay_enable", "decay", v, 1, FP)
      [] cmd = "SD10"           -> [s EXCEPT !.syn1.decay_enable = TRUE]
      [] cmd = "SG21" /\ hasVal ->
            applyFloat(s, "syn2", "gain_enable", "gain", v, 1, 4)
      [] cmd = "SG20"           -> [s EXCEPT !.syn2.gain_enable = TRUE]
      [] cmd = "SD21" /\ hasVal ->
            applyFloat(s, "syn2", "decay_enable", "decay", v, 1, FP)
      [] cmd = "SD20"           -> [s EXCEPT !.syn2.decay_enable = TRUE]
      [] cmd = "BZ1"            -> Buzzer_on(s)
      [] cmd = "BZ0"            -> Buzzer_off(s)
      [] cmd = "LED1"           -> LED_on(s)
      [] cmd = "LED0"           -> LED_off(s)
      [] cmd = "CON"            -> Connected(s)
      [] OTHER                  -> s

(***************************************************************************)
(* Core_functions.h: the conditioning units and the stimulus generator.    *)
(* The arguments after s are the samples the call reads: ADC channels      *)
(* (0 .. bits12), a digital pin (LOW, HIGH), a draw of the Gaussian.       *)
(***************************************************************************)
constrain(x, lo, hi) == IF x < lo THEN lo ELSE IF x > hi THEN hi ELSE x

ledc_Max == 1023

\* x / pot_scaling for pot_scaling = bits12 / k (k = 100, 25, 50, 50 for the
\* clamp, the noise, the photodiode and the synapses); x is an integer.
PotScaled(x, k) == TruncDiv(x * k * FP, bits12)

\* Faulty variant of DeadZone: readings below the centre give no current.
DeadZone_oneSided(pot_value, k) ==
    IF pot_value >= pot.offset THEN PotScaled(pot_value - pot.offset, k)
    ELSE 0

\* The dead-zone / scale rule on a centred potentiometer value.
DeadZone(pot_value, k) ==
    IF pot_value >= pot.offset THEN PotScaled(pot_value - pot.offset, k)
    ELSE IF pot_value <= -pot.offset THEN PotScaled(pot_value + pot.offset, k)
    ELSE 0

\* Faulty variant of update_InputCurrent: the early return on a cleared
\* flag is missing.
update_InputCurrent_noReturn(s, raw) ==
    LET pot_value == raw - bits12 \div 2
    IN  [s EXCEPT !.IC.pot_value = pot_value * FP,
                  !.IC.current_clamp = DeadZone(pot_value, 100)]

update_InputCurrent(s, raw) ==
    IF ~s.IC.enable THEN s
    ELSE LET pot_value == raw - bits12 \div 2
         IN  [s EXCEPT !.IC.pot_value = pot_value * FP,
                       !.IC.current_clamp = DeadZone(pot_value, 100)]

\* Largest r with r * r <= n, searched between lo and hi.
RECURSIVE ISqrtIn(_, _, _)
ISqrtIn(n, lo, hi) ==
    IF lo >= hi THEN lo
    ELSE LET mid == (lo + hi + 1) \div 2
         IN  IF mid * mid <= n THEN ISqrtIn(n, mid, hi)
             ELSE ISqrtIn(n, lo, mid - 1)

\* Square root of a fixed-point number.
SqrtFP(x) == ISqrtIn(x * FP, 0, 40000)

\* Gaussian::random(): mean + sqrt(variance) * z, z a standard normal draw.
dist_random(n, z) == n.dist_mean + MulFP(SqrtFP(n.dist_variance), z)

\* Faulty variant of SigmaChanged: a coarser threshold, so that the step of
\* one potentiometer count no longer updates sigma.
SigmaChanged_coarse(newSigma, sigma) ==
    Abs(newSigma - sigma) > 5

\* The test written as fabsf(newSigma != sigma) > 1e-3f takes the absolute
\* value of the comparison's result (0 or 1): it holds exactly when the two
\* differ.
SigmaChanged(newSigma, sigma) ==
    (IF newSigma # sigma THEN FP ELSE 0) > 1

update_Noise(s, raw, z) ==
    IF ~s.noise.enable THEN s
    ELSE IF raw <= pot.offset
    THEN [s EXCEPT !.noise.pot_value = raw, !.noise.current = 0]
    ELSE LET amp      == PotScaled(raw - pot.offset, 25)
             newSigma == MulFP(FP \div 2, amp)
             n1 == [s.noise EXCEPT !.pot_value = raw,
                                   !.amp = amp,
                                   !.newSigma = newSigma]
             n2 == IF SigmaChanged(newSigma, n1.sigma)
                   THEN [n1 EXCEPT !.sigma = newSigma,
                                   !.var = MulFP(newSigma, newSigma),
                                   !.dist_variance = MulFP(newSigma, newSigma),
                                   !.dist_mean = n1.mean]
                   ELSE n1
         IN  [s EXCEPT !.noise = [n2 EXCEPT !.current = dist_random(n2, z)]]

\* PD.inv_scaling = 1.0 / 0.45f
PD_inv_scaling == (FP * FP) \div 450

\* Faulty variant of update_Photodiode: the amplitude is not floored at
\* ampMin.
update_Photodiode_noFloor(s, raw, rawPot) ==
    LET P0 == s.PD
        sum == P0.sum - P0.values[P0.counter] + raw
        counter == IF P0.counter + 1 >= P0.avgWindow THEN 0 ELSE P0.counter + 1
        \* int / int: the quotient is truncated before it becomes a float
        average == TruncDiv(sum, P0.avgWindow) * FP
        pot_value == rawPot - bits12 \div 2
        gain == IF P0.gain_enable THEN DeadZone(pot_value, 50) ELSE P0.gain
        polarity == IF gain >= 0 THEN 1 ELSE -1
        current == MulFP(MulFP(MulFP(average, gain), PD_inv_scaling), P0.amp)
        decay == IF P0.decay_enable THEN 1 ELSE P0.decay
        amp1 == IF P0.amp > P0.ampMin
                THEN P0.amp - polarity * MulFP(decay, current)
                ELSE P0.amp
        recovery == IF P0.recovery_enable THEN 25 ELSE P0.recovery
        amp2 == IF amp1 < FP THEN amp1 + recovery ELSE amp1
    IN  [s EXCEPT !.PD =
            [P0 EXCEPT !.value = raw,
                       !.values = [P0.values EXCEPT ![P0.counter] = raw],
                       !.sum = sum,
                       !.counter = counter,
                       !.average = average,
                       !.pot_value = IF P0.gain_enable THEN pot_value ELSE @,
                       !.gain = gain,
                       !.polarity = polarity,
                       !.current = current,
                       !.decay = decay,
                       !.amp = amp2,
                       !.recovery = recovery]]

\* Faulty variant of update_Photodiode: the sample that is overwritten stays
\* in the running sum.
update_Photodiode_noEviction(s, raw, rawPot) ==
    LET P0 == s.PD
        sum == P0.sum + raw
        counter == IF P0.counter + 1 >= P0.avgWindow THEN 0 ELSE P0.counter + 1
        \* int / int: the quotient is truncated before it becomes a float
        average == TruncDiv(sum, P0.avgWindow) * FP
        pot_value == rawPot - bits12 \div 2
        gain == IF P0.gain_enable THEN DeadZone(pot_value, 50) ELSE P0.gain
        polarity == IF gain >= 0 THEN 1 ELSE -1
        current == MulFP(MulFP(MulFP(average, gain), PD_inv_scaling), P0.amp)
        decay == IF P0.decay_enable THEN 1 ELSE P0.decay
        amp1 == IF P0.amp > P0.ampMin
                THEN LET a == P0.amp - polarity * MulFP(decay, current)
                     IN  IF a < P0.ampMin THEN P0.ampMin ELSE a
                ELSE P0.amp
        recovery == IF P0.recovery_enable THEN 25 ELSE P0.recovery
        amp2 == IF amp1 < FP THEN amp1 + recovery ELSE amp1
    IN  [s EXCEPT !.PD =
            [P0 EXCEPT !.value = raw,
                       !.values = [P0.values EXCEPT ![P0.counter] = raw],
                       !.sum = sum,
                       !.counter = counter,
                       !.average = average,
                       !.pot_value = IF P0.gain_enable THEN pot_value ELSE @,
                       !.gain = gain,
                       !.polarity = polarity,
                       !.current = current,
                       !.decay = decay,
                       !.amp = amp2,
                       !.recovery = recovery]]

\* update_Photodiode(): raw is the photodiode sample, rawPot the reading of
\* the gain potentiometer.
update_Photodiode(s, raw, rawPot) ==
    LET P0 == s.PD
        sum == P0.sum - P0.values[P0.counter] + raw
        counter == IF P0.counter + 1 >= P0.avgWindow THEN 0 ELSE P0.counter + 1
        \* int / int: the quotient is truncated before it becomes a float
        average == TruncDiv(sum, P0.avgWindow) * FP
        pot_value == rawPot - bits12 \div 2
        gain == IF P0.gain_enable THEN DeadZone(pot_value, 50) ELSE P0.gain
        polarity == IF gain >= 0 THEN 1 ELSE -1
        current == MulFP(MulFP(MulFP(average, gain), PD_inv_scaling), P0.amp)
        decay == IF P0.decay_enable THEN 1 ELSE P0.decay
        amp1 == IF P0.amp > P0.ampMin
                THEN LET a == P0.amp - polarity * MulFP(decay, current)
                     IN  IF a < P0.ampMin THEN P0.ampMin ELSE a
                ELSE P0.amp
        recovery == IF P0.recovery_enable THEN 25 ELSE P0.recovery
        amp2 == IF amp1 < FP THEN amp1 + recovery ELSE amp1
    IN  [s EXCEPT !.PD =
            [P0 EXCEPT !.value = raw,
                       !.values = [P0.values EXCEPT ![P0.counter] = raw],
                       !.sum = sum,
                       !.counter = counter,
                       !.average = average,
                       !.pot_value = IF P0.gain_enable THEN pot_value ELSE @,
                       !.gain = gain,
                       !.polarity = polarity,
                       !.current = current,
                       !.decay = decay,
                       !.amp = amp2,
                       !.recovery = recovery]]

\* mapfloat(x, in_min, in_max, out_min, out_max); x, in_min and in_max hold
\* whole numbers here, which keeps the product within range.
mapfloat(x, in_min, in_max, out_min, out_max) ==
    TruncDiv(((x - in_min) \div FP) * (out_max - out_min),
             (in_max - in_min) \div FP) + out_min

\* syn.analogOffsetLow, syn.analogOffsetHigh, axon.offset
analogOffsetLow == -10 * FP

analogOffsetHigh == -400 * FP

axon == [offset |-> -6750]

\* Faulty variant of update_Synapse: the tick that adds the gain does not
\* apply the decay.
update_Synapse_noDecayOnSpike(s, which, defaultDecay, spikeState, rawPot, rawAnalog) ==
    LET Y0 == s[which]
        pot_value == rawPot - bits12 \div 2
        gain == IF Y0.gain_enable THEN DeadZone(pot_value, 50) ELSE Y0.gain
        cur1 == IF spikeState = HIGH THEN Y0.current + gain ELSE Y0.current
        decay == IF Y0.decay_enable THEN defaultDecay ELSE Y0.decay
        Vm == mapfloat(rawAnalog * FP, analogOffsetLow,
                       bits12 * FP - analogOffsetHigh,
                       s.neuron.Vm_min, s.neuron.Vm_max) + axon.offset
    IN  [s EXCEPT ![which] =
            [Y0 EXCEPT !.spikeState = spikeState,
                       !.pot_value = IF Y0.gain_enable THEN pot_value ELSE @,
                       !.gain = gain,
                       !.decay = decay,
                       !.current = IF spikeState = HIGH THEN cur1
                                  ELSE MulFP(cur1, decay),
                       !.Vm_input = rawAnalog * FP,
                       !.Vm = Vm]]

\* update_Synapse(Synapse &syn, float defaultDecay): syn is the global
\* named which ("syn1" or "syn2").
update_Synapse(s, which, defaultDecay, spikeState, rawPot, rawAnalog) ==
    LET Y0 == s[which]
        pot_value == rawPot - bits12 \div 2
        gain == IF Y0.gain_enable THEN DeadZone(pot_value, 50) ELSE Y0.gain
        cur1 == IF spikeState = HIGH THEN Y0.current + gain ELSE Y0.current
        decay == IF Y0.decay_enable THEN defaultDecay ELSE Y0.decay
        Vm == mapfloat(rawAnalog * FP, analogOffsetLow,
                       bits12 * FP - analogOffsetHigh,
                       s.neuron.Vm_min, s.neuron.Vm_max) + axon.offset
    IN  [s EXCEPT ![which] =
            [Y0 EXCEPT !.spikeState = spikeState,
                       !.pot_value = IF Y0.gain_enable THEN pot_value ELSE @,
                       !.gain = gain,
                       !.decay = decay,
                       !.current = MulFP(cur1, decay),
                       !.Vm_input = rawAnalog * FP,
                       !.Vm = Vm]]

\* The potentiometer maps of the stimulus (int16_t of a float expression):
\*   str_digital = int16_t((strPot - bits12/2) * (100.0f / (bits12/2)))
\*   str_analog  = int16_t(strPot * (200.0f / (bits12/2)) - 100.0f)
\*   freq        = int16_t(100.0f - freqPot * (200.0f / bits12))
StrDigitalOf(strPot) ==
    TruncDiv((strPot - bits12 \div 2) * 100, bits12 \div 2)

StrAnalogOf(strPot) ==
    TruncDiv(strPot * 200 - 100 * (bits12 \div 2), bits12 \div 2)

FreqOf(freqPot) == TruncDiv(100 * bits12 - freqPot * 200, bits12)

\* (int)(x * light_scaling), light_scaling = 5.12f
LightScaled(x) == TruncDiv(x * 512, 100)

\* (int)abs(x) * current_scaling stored in an int, current_scaling = 0.9f
CurrentScaled(x) == TruncDiv(Abs(x) * 9, 10)

\* Faulty variant of StepsOf: the frequency term is subtracted.
StepsOf_inverse(st) ==
    LET s100 == 100 * st.dutyCycle - st.freq * st.dutyCycle
                + 100 * st.dutyCycle_Min
    IN  TruncDiv(s100 + 50, 100)

\* Faulty variant of StepsOf: dutyCycle_Min is left out.
StepsOf_noFloor(st) ==
    LET s100 == 100 * st.dutyCycle + st.freq * st.dutyCycle
    IN  TruncDiv(s100 + 50, 100)

\* steps = (int)(s + 0.5f) with
\*   s = dutyCycle + (freq * dutyCycle) / 100.0f + dutyCycle_Min
\* computed in hundredths so that the division stays exact.
StepsOf(st) ==
    LET s100 == 100 * st.dutyCycle + st.freq * st.dutyCycle
                + 100 * st.dutyCycle_Min
    IN  TruncDiv(s100 + 50, 100)

\* Faulty variant of update_StimulusOutput: the counter wraps one tick late.
update_StimulusOutput_lateWrap(s, rawStr, rawFreq) ==
    LET T0 == s.stim
        T1 == IF T0.strength_enable /\ T0.custom_enable
              THEN [T0 EXCEPT !.strPot = rawStr,
                              !.str_digital = StrDigitalOf(rawStr),
                              !.str_analog = StrAnalogOf(rawStr)]
              ELSE T0
        T2 == IF T1.frequency_enable /\ T1.custom_enable
              THEN [T1 EXCEPT !.freqPot = rawFreq, !.freq = FreqOf(rawFreq)]
              ELSE T1
    IN  IF T2.custom_enable
        THEN LET value_digital == IF T2.str_digital >= 0
                                  THEN LightScaled(T2.str_digital) ELSE 0
                 value_analog == CurrentScaled(T2.str_analog)
                 on == T2.counter < TruncDiv(T2.steps, 2)
                 pwm == IF on THEN constrain(value_digital, 0, ledc_Max) ELSE 0
                 dac == IF on THEN value_analog ELSE 0
                 state == IF on THEN T2.str_analog ELSE 0
                 counter == T2.counter + 1
                 trigger == IF T2.trigger_enable THEN 1 ELSE 0
                 wrap == counter > T2.steps
                 T3 == [T2 EXCEPT !.value_digital = value_digital,
                                  !.value_analog = value_analog,
                                  !.pwm = pwm,
                                  !.dac = dac,
                                  !.state = state,
                                  !.trigger = trigger,
                                  !.counter = IF wrap THEN 0 ELSE counter,
                                  !.trigger_enable = wrap,
                                  !.steps = IF wrap THEN StepsOf(T2) ELSE @]
             IN  [s EXCEPT !.stim = T3,
                           !.pin.stim_light = pwm,
                           !.pin.dac_stim = dac]
        ELSE LET value_digital == IF T2.value_custom > 0
                                  THEN LightScaled(T2.value_custom) ELSE 0
                 value_analog == CurrentScaled(T2.value_custom)
                 T3 == [T2 EXCEPT !.trigger =
                                      IF T2.serialTrigger_enable THEN 1 ELSE 0,
                                  !.serialTrigger_enable = FALSE,
                                  !.value_digital = value_digital,
                                  !.value_analog = value_analog,
                                  !.state = T2.value_custom]
             IN  [s EXCEPT !.stim = T3,
                           !.pin.stim_light =
                               constrain(value_digital, 0, ledc_Max),
                           !.pin.dac_stim = value_analog]

\* Faulty variant of update_StimulusOutput: the on phase lasts the whole
\* cycle.
update_StimulusOutput_fullCycleOn(s, rawStr, rawFreq) ==
    LET T0 == s.stim
        T1 == IF T0.strength_enable /\ T0.custom_enable
              THEN [T0 EXCEPT !.strPot = rawStr,
                              !.str_digital = StrDigitalOf(rawStr),
                              !.str_analog = StrAnalogOf(rawStr)]
              ELSE T0
        T2 == IF T1.frequency_enable /\ T1.custom_enable
              THEN [T1 EXCEPT !.freqPot = rawFreq, !.freq = FreqOf(rawFreq)]
              ELSE T1
    IN  IF T2.custom_enable
        THEN LET value_digital == IF T2.str_digital >= 0
                                  THEN LightScaled(T2.str_digital) ELSE 0
                 value_analog == CurrentScaled(T2.str_analog)
                 on == T2.counter < T2.steps
                 pwm == IF on THEN constrain(value_digital, 0, ledc_Max) ELSE 0
                 dac == IF on THEN value_analog ELSE 0
                 state == IF on THEN T2.str_analog ELSE 0
                 counter == T2.counter + 1
                 trigger == IF T2.trigger_enable THEN 1 ELSE 0
                 wrap == counter >= T2.steps
                 T3 == [T2 EXCEPT !.value_digital = value_digital,
                                  !.value_analog = value_analog,
                                  !.pwm = pwm,
                                  !.dac = dac,
                                  !.state = state,
                                  !.trigger = trigger,
                                  !.counter = IF wrap THEN 0 ELSE counter,
                                  !.trigger_enable = wrap,
                                  !.steps = IF wrap THEN StepsOf(T2) ELSE @]
             IN  [s EXCEPT !.stim = T3,
                           !.pin.stim_light = pwm,
                           !.pin.dac_stim = dac]
        ELSE LET value_digital == IF T2.value_custom > 0
                                  THEN LightScaled(T2.value_custom) ELSE 0
                 value_analog == CurrentScaled(T2.value_custom)
                 T3 == [T2 EXCEPT !.trigger =
                                      IF T2.serialTrigger_enable THEN 1 ELSE 0,
                                  !.serialTrigger_enable = FALSE,
                                  !.value_digital = value_digital,
                                  !.value_analog = value_analog,
                                  !.state = T2.value_custom]
             IN  [s EXCEPT !.stim = T3,
                           !.pin.stim_light =
                               constrain(value_digital, 0, ledc_Max),
                           !.pin.dac_stim = value_analog]

\* update_StimulusOutput(): rawStr and rawFreq are what the two
\* potentiometers read.
update_StimulusOutput(s, rawStr, rawFreq) ==
    LET T0 == s.stim
        T1 == IF T0.strength_enable /\ T0.custom_enable
              THEN [T0 EXCEPT !.strPot = rawStr,
                              !.str_digital = StrDigitalOf(rawStr),
                              !.str_analog = StrAnalogOf(rawStr)]
              ELSE T0
        T2 == IF T1.frequency_enable /\ T1.custom_enable
              THEN [T1 EXCEPT !.freqPot = rawFreq, !.freq = FreqOf(rawFreq)]
              ELSE T1
    IN  IF T2.custom_enable
        THEN LET value_digital == IF T2.str_digital >= 0
                                  THEN LightScaled(T2.str_digital) ELSE 0
                 value_analog == CurrentScaled(T2.str_analog)
                 on == T2.counter < TruncDiv(T2.steps, 2)
                 pwm == IF on THEN constrain(value_digital, 0, ledc_Max) ELSE 0
                 dac == IF on THEN value_analog ELSE 0
                 state == IF on THEN T2.str_analog ELSE 0
                 counter == T2.counter + 1
                 trigger == IF T2.trigger_enable THEN 1 ELSE 0
                 wrap == counter >= T2.steps
                 T3 == [T2 EXCEPT !.value_digital = value_digital,
                                  !.value_analog = value_analog,
                                  !.pwm = pwm,
                                  !.dac = dac,
                                  !.state = state,
                                  !.trigger = trigger,
                                  !.counter = IF wrap THEN 0 ELSE counter,
                                  !.trigger_enable = wrap,
                                  !.steps = IF wrap THEN StepsOf(T2) ELSE @]
             IN  [s EXCEPT !.stim = T3,
                           !.pin.stim_light = pwm,
                           !.pin.dac_stim = dac]
        ELSE LET value_digital == IF T2.value_custom > 0
                                  THEN LightScaled(T2.value_custom) ELSE 0
                 value_analog == CurrentScaled(T2.value_custom)
                 T3 == [T2 EXCEPT !.trigger =
                                      IF T2.serialTrigger_enable THEN 1 ELSE 0,
                                  !.serialTrigger_enable = FALSE,
                                  !.value_digital = value_digital,
                                  !.value_analog = value_analog,
                                  !.state = T2.value_custom]
             IN  [s EXCEPT !.stim = T3,
                           !.pin.stim_light =
                               constrain(value_digital, 0, ledc_Max),
                           !.pin.dac_stim = value_analog]

\* Faulty variant of update_StimulusCurrentIn: the current is not forced to
\* 0 while the stimulus is off.
update_StimulusCurrentIn_noForce(s, raw) ==
    LET scaled == TruncDiv(raw * FP, 10)
        T == s.stim
    IN  IF T.custom_enable
        THEN [s EXCEPT !.IC.value_currentIn = raw * FP,
                       !.IC.current =
                           IF T.str_analog > T.str_analog_min THEN scaled
                           ELSE IF T.str_analog < -T.str_analog_min
                           THEN -scaled
                           ELSE 0]
        ELSE [s EXCEPT !.IC.value_currentIn = raw * FP,
                       !.IC.current =
                           IF T.value_custom >= 0 THEN scaled ELSE -scaled]

\* update_StimulusCurrentIn(): raw is the Current-In sample;
\* IC.currentIn_scaling = 0.1f.
update_StimulusCurrentIn(s, raw) ==
    LET scaled == TruncDiv(raw * FP, 10)
        T == s.stim
    IN  IF T.custom_enable
        THEN [s EXCEPT !.IC.value_currentIn = raw * FP,
                       !.IC.current =
                           IF T.state = 0 THEN 0
                           ELSE IF T.str_analog > T.str_analog_min THEN scaled
                           ELSE IF T.str_analog < -T.str_analog_min
                           THEN -scaled
                           ELSE 0]
        ELSE [s EXCEPT !.IC.value_currentIn = raw * FP,
                       !.IC.current =
                           IF T.value_custom = 0 THEN 0
                           ELSE IF T.value_custom >= 0 THEN scaled
                           ELSE -scaled]

\* setLedc(pin, value, last): the channel is written only when the value
\* differs from the one written last; led is "led_r", "led_g" or "led_b".
setLedc(s, led, value) ==
    LET last == led \o "_last"
    IN  IF value # s[last]
        THEN [s EXCEPT ![last] = value, !.pin[led] = value]
        ELSE s

\* int(constrain((v_out - Vm_min) * Vm_led_gain, 0, bits10)) with
\* Vm_led_gain = bits10 / (Vm_peak - Vm_min).
LedLevel(n) ==
    constrain(TruncDiv((n.v_out - n.Vm_min) * bits10, n.Vm_peak - n.Vm_min),
              0, bits10)

\* Faulty variant of AxonLevel: norm is not constrained to [0, 1].
AxonLevel_unclamped(n) ==
    LET range == (n.Vm_max - n.Vm_min) \div FP
        d     == n.v_out - n.Vm_min
    IN  (2 * d * bits12 + range * FP) \div (2 * range * FP)

\* uint16_t(norm * bits12 + 0.5f) with norm = (v_out - Vm_min) *
\* Vm_range_inv constrained to [0, 1], Vm_range_inv = 1 / (Vm_max - Vm_min).
AxonLevel(n) ==
    LET range == (n.Vm_max - n.Vm_min) \div FP
        d     == constrain(n.v_out - n.Vm_min, 0, range * FP)
    IN  (2 * d * bits12 + range * FP) \div (2 * range * FP)

\* update_Spike().  The second branch is the else of if (neuron.spike), as
\* the indentation and the comments have it (the brace that closes the
\* first branch is missing in the file).
update_Spike(s) ==
    LET s1 == IF s.neuron.spike
              THEN LET a1 == [s EXCEPT !.neuron.v_out = s.neuron.Vm_peak,
                                       !.pin.axon_d = HIGH]
                       a2 == IF a1.LED_enable
                             THEN setLedc(setLedc(setLedc(a1,
                                      "led_r", ledc_Max),
                                      "led_g", ledc_Max),
                                      "led_b", ledc_Max)
                             ELSE a1
                   IN  IF a2.Buzzer_enable
                       THEN [a2 EXCEPT !.pin.spike = HIGH]
                       ELSE a2
              ELSE LET b1 == [s EXCEPT !.neuron.v_out = s.neuron.v,
                                       !.pin.axon_d = LOW,
                                       !.pin.spike = LOW]
                   IN  IF b1.LED_enable
                       THEN setLedc(setLedc(setLedc(b1,
                                "led_r", LedLevel(b1.neuron)),
                                "led_g", 0),
                                "led_b", 0)
                       ELSE b1
    IN  [s1 EXCEPT !.pin.dac_axon = AxonLevel(s1.neuron)]

\* update_Spike() with the braces as they stand up to the else: the block
\* of if (Buzzer_enable) is closed just before the else, so the compiler
\* pairs the else with that test, inside the block of if (neuron.spike).
\* The statements that follow the branches stay unconditional.
update_Spike_elseOfBuzzer(s) ==
    LET s1 == IF s.neuron.spike
              THEN LET a1 == [s EXCEPT !.neuron.v_out = s.neuron.Vm_peak,
                                       !.pin.axon_d = HIGH]
                       a2 == IF a1.LED_enable
                             THEN setLedc(setLedc(setLedc(a1,
                                      "led_r", ledc_Max),
                                      "led_g", ledc_Max),
                                      "led_b", ledc_Max)
                             ELSE a1
                   IN  IF a2.Buzzer_enable
                       THEN [a2 EXCEPT !.pin.spike = HIGH]
                       ELSE LET b1 == [a2 EXCEPT !.neuron.v_out = a2.neuron.v,
                                                 !.pin.axon_d = LOW,
                                                 !.pin.spike = LOW]
                            IN  IF b1.LED_enable
                                THEN setLedc(setLedc(setLedc(b1,
                                         "led_r", LedLevel(b1.neuron)),
                                         "led_g", 0),
                                         "led_b", 0)
                                ELSE b1
              ELSE s
    IN  [s1 EXCEPT !.pin.dac_axon = AxonLevel(s1.neuron)]

\* One closing brace is missing from update_Spike in the file, which does
\* not compile as it is.  The two readings of it: the brace is missing just
\* before the else, which then belongs to if (neuron.spike) (update_Spike
\* above), or the braces stand as they are up to the else
\* (update_Spike_elseOfBuzzer).
SpikeReadings == { "else of spike", "else of buzzer" }

update_SpikeAs(s, reading) ==
    IF reading = "else of spike" THEN update_Spike(s)
    ELSE update_Spike_elseOfBuzzer(s)

(***************************************************************************)
(* Core_functions.h: the telemetry encoder.                                *)
(***************************************************************************)
V_SCALE == 100

I_SCALE == 100

SYN_V_SCALE == 1

Int16Min == -(Half \div 2)

Int16Max == Half \div 2 - 1

\* (int16_t) of an int: the value modulo 2^16.
WrapInt16(i) == ((i - Int16Min) % Half) + Int16Min

\* What a conversion of an out-of-range float to int16_t can give (the
\* conversion is undefined there): the value wrapped, or the nearest bound.
Int16Outcomes == { "wrap", "saturate" }

\* (int16_t) of the float x / FP: the fraction is dropped; out of range,
\* the outcome named by ub.
FloatToInt16(x, ub) ==
    LET i == TruncDiv(x, FP)
    IN  IF Int16Min <= i /\ i <= Int16Max THEN i
        ELSE IF ub = "wrap" THEN WrapInt16(i)
        ELSE constrain(i, Int16Min, Int16Max)

q_round(x, ub) ==
    IF x >= 0
    THEN FloatToInt16(x + FP \div 2, ub)
    ELSE FloatToInt16(x - FP \div 2, ub)

\* The two bytes of an int16_t in memory, low byte first.
BytesOf(q) == << (q % Half) % 256, (q % Half) \div 256 >>

\* The bytes of the SamplePacket struct, in the order of its fields.
PacketBytes(p) ==
    BytesOf(p.v_q) \o BytesOf(p.stim_state) \o BytesOf(p.Itot_q)
    \o BytesOf(p.syn1_vm_q) \o BytesOf(p.Isyn1_q) \o BytesOf(p.syn2_vm_q)
    \o BytesOf(p.Isyn2_q) \o BytesOf(p.trigger_q)

\* Faulty variant of send_SamplePacket: the total current and the stimulus
\* state have changed places.
send_SamplePacket_swapped(s, ub) ==
    LET p == [ v_q        |-> q_round(s.neuron.v_out * V_SCALE, ub),
               stim_state |-> q_round(s.neuron.total_current * I_SCALE, ub),
               Itot_q     |-> WrapInt16(s.stim.state),
               syn1_vm_q  |-> q_round(s.syn1.Vm * SYN_V_SCALE, ub),
               Isyn1_q    |-> q_round(s.syn1.current * I_SCALE, ub),
               syn2_vm_q  |-> q_round(s.syn2.Vm * SYN_V_SCALE, ub),
               Isyn2_q    |-> q_round(s.syn2.current * I_SCALE, ub),
               trigger_q  |-> WrapInt16(s.stim.trigger) ]
    IN  [s EXCEPT !.pkt = p,
                  !.serialFrame = <<170, 85>> \o PacketBytes(p)]

\* send_SamplePacket(): ub names the outcome of the conversions that are
\* out of range.
send_SamplePacket(s, ub) ==
    LET p == [ v_q        |-> q_round(s.neuron.v_out * V_SCALE, ub),
               stim_state |-> WrapInt16(s.stim.state),
               Itot_q     |-> q_round(s.neuron.total_current * I_SCALE, ub),
               syn1_vm_q  |-> q_round(s.syn1.Vm * SYN_V_SCALE, ub),
               Isyn1_q    |-> q_round(s.syn1.current * I_SCALE, ub),
               syn2_vm_q  |-> q_round(s.syn2.Vm * SYN_V_SCALE, ub),
               Isyn2_q    |-> q_round(s.syn2.current * I_SCALE, ub),
               trigger_q  |-> WrapInt16(s.stim.trigger) ]
    IN  [s EXCEPT !.pkt = p,
                  !.serialFrame = <<170, 85>> \o PacketBytes(p)]

(***************************************************************************)
(* WiFi_functions.h: the stream control and the sample broadcast.          *)
(***************************************************************************)
WS_PORT == 81

WIFI_SEND_SERIAL_HEADER == FALSE

\* (uint16_t)d
ToUint16(d) == d % Half

\* A text message as handleCommandJson reads it: whether deserializeJson
\* reports an error, the document's type ("" when the key is missing),
\* whether it has the keys enable, decim and v, and their values; cmd is ""
\* when the key is missing.
Doc(type, hasEnable, enable, hasDecim, decim) ==
    [ err |-> FALSE,
      type |-> type, hasEnable |-> hasEnable, enable |-> enable,
      hasDecim |-> hasDecim, decim |-> decim,
      cmd |-> "", hasV |-> FALSE, v |-> 0 ]

ScmdDoc(cmd, hasV, v) ==
    [ err |-> FALSE,
      type |-> "scmd", hasEnable |-> FALSE, enable |-> FALSE,
      hasDecim |-> FALSE, decim |-> 0, cmd |-> cmd, hasV |-> hasV, v |-> v ]

\* Faulty variant of handleCommandJson: the decimation is not clamped from
\* above.
handleCommandJson_noUpperClamp(s, doc) ==
    IF doc.err THEN s
    ELSE IF doc.type = "stream"
    THEN LET e == IF doc.hasEnable THEN doc.enable ELSE s.wifiStream.enabled
             d == IF doc.decim < 1 THEN 1 ELSE doc.decim
         IN  [s EXCEPT !.wifiStream.enabled = e,
                       !.wifiStream.decim =
                           IF doc.hasDecim THEN ToUint16(d) ELSE @]
    ELSE IF doc.type = "scmd"
    THEN IF doc.cmd = "" THEN s
         ELSE dispatchToken(s, doc.cmd, doc.hasV, doc.v)
    ELSE IF doc.type = "ping"
    THEN [s EXCEPT !.wsOut = Append(@, <<"pong", WS_PORT>>)]
    ELSE s

\* Faulty variant of handleCommandJson: a document of unknown type is
\* answered.
handleCommandJson_replying(s, doc) ==
    IF doc.err THEN s
    ELSE IF doc.type = "stream"
    THEN LET e == IF doc.hasEnable THEN doc.enable ELSE s.wifiStream.enabled
             d1 == IF doc.decim < 1 THEN 1 ELSE doc.decim
             d == IF d1 > 500 THEN 500 ELSE d1
         IN  [s EXCEPT !.wifiStream.enabled = e,
                       !.wifiStream.decim =
                           IF doc.hasDecim THEN ToUint16(d) ELSE @]
    ELSE IF doc.type = "scmd"
    THEN IF doc.cmd = "" THEN s
         ELSE dispatchToken(s, doc.cmd, doc.hasV, doc.v)
    ELSE IF doc.type = "ping"
    THEN [s EXCEPT !.wsOut = Append(@, <<"pong", WS_PORT>>)]
    ELSE [s EXCEPT !.wsOut = Append(@, <<"err", WS_PORT>>)]

\* handleCommandJson(): a text that does not parse is dropped; a stream
\* message sets the enable flag and the clamped decimation, each if its key
\* is there; a scmd goes to dispatchToken; a ping is answered.
handleCommandJson(s, doc) ==
    IF doc.err THEN s
    ELSE IF doc.type = "stream"
    THEN LET e == IF doc.hasEnable THEN doc.enable ELSE s.wifiStream.enabled
             d1 == IF doc.decim < 1 THEN 1 ELSE doc.decim
             d == IF d1 > 500 THEN 500 ELSE d1
         IN  [s EXCEPT !.wifiStream.enabled = e,
                       !.wifiStream.decim =
                           IF doc.hasDecim THEN ToUint16(d) ELSE @]
    ELSE IF doc.type = "scmd"
    THEN IF doc.cmd = "" THEN s
         ELSE dispatchToken(s, doc.cmd, doc.hasV, doc.v)
    ELSE IF doc.type = "ping"
    THEN [s EXCEPT !.wsOut = Append(@, <<"pong", WS_PORT>>)]
    ELSE s

\* What goes into one binary WebSocket frame.
WsFrame(p) ==
    IF WIFI_SEND_SERIAL_HEADER THEN <<170, 85>> \o PacketBytes(p)
    ELSE PacketBytes(p)

\* Faulty variant of wifiSendSamplePacket: the counter is not reset after
\* a broadcast.
wifiSendSamplePacket_noReset(s, p) ==
    IF ~s.wifiStream.enabled THEN s
    ELSE LET n == ToUint16(s.wifiStream.cnt + 1)
         IN  IF n < s.wifiStream.decim
             THEN [s EXCEPT !.wifiStream.cnt = n]
             ELSE [s EXCEPT !.wifiStream.cnt = n,
                            !.wsOut = Append(@, WsFrame(p))]

\* wifiSendSamplePacket()
wifiSendSamplePacket(s, p) ==
    IF ~s.wifiStream.enabled THEN s
    ELSE LET n == ToUint16(s.wifiStream.cnt + 1)
         IN  IF n < s.wifiStream.decim
             THEN [s EXCEPT !.wifiStream.cnt = n]
             ELSE [s EXCEPT !.wifiStream.cnt = 0,
                            !.wsOut = Append(@, WsFrame(p))]

(***************************************************************************)
(* What the environment sends and the channels deliver.                    *)
(***************************************************************************)
Vocabulary ==
    { "DT", "NEU", "FR1", "FR0", "ST1", "ST0", "SC1", "SC0", "TR",
      "PG1", "PG0", "PD1", "PD0", "PR1", "PR0", "IC1", "IC0", "NO1", "NO0",
      "SG11", "SG10", "SD11", "SD10", "SG21", "SG20", "SD21", "SD20",
      "BZ1", "BZ0", "LED1", "LED0", "CON" }

FloatSetCommands ==
    { "PG1", "PD1", "PR1", "IC1", "NO1", "SG11", "SD11", "SG21", "SD21" }

IntSetCommands == { "FR1", "ST1", "SC1" }

SetCommands == FloatSetCommands \cup IntSetCommands

ClearCommands ==
    { "FR0", "ST0", "SC0", "PG0", "PD0", "PR0", "IC0", "NO0",
      "SG10", "SD10", "SG20", "SD20" }

\* Names outside the vocabulary.
UnknownNames == { "XYZ" }

NoArg == [has |-> FALSE, v |-> 0]

Arg(v) == [has |-> TRUE, v |-> v]

\* The numerals tried after each command (in thousandths): 120.0 and -2.0
\* for the float parameters (0.002 and 0.05 for the photodiode decay, 0.05
\* and 0.5 for its recovery), 120, -3 and 2.5 for the integer ones, periods
\* below, inside and above the network clamp for DT, indices below, inside,
\* at the end of and beyond the table for NEU.
ValuesOf(cmd) ==
    IF cmd = "PD1" THEN { 2, 50 }
    ELSE IF cmd = "PR1" THEN { 50, 500 }
    ELSE IF cmd \in FloatSetCommands THEN { 120 * FP, -2 * FP }
    ELSE IF cmd \in IntSetCommands THEN { 120 * FP, -3 * FP, 2500 }
    ELSE IF cmd = "DT" THEN { -5 * FP, 500 * FP, 5000 * FP, 1500000 * FP }
    ELSE IF cmd = "NEU" THEN { -1 * FP, 3 * FP, 19 * FP, 20 * FP }
    ELSE IF cmd \in UnknownNames THEN { 120 * FP }
    ELSE { }

ArgsOf(cmd) == { NoArg } \cup { Arg(v) : v \in ValuesOf(cmd) }

\* Samples of the ADC channels, of the digital pins and of the Gaussian.
ClampSamples == { 0, bits12 \div 2, bits12 }

NoiseSamples == { 0, 2000, bits12 }

GaussDraws == { -FP, (3 * FP) \div 2 }

PDSamples == { 0, 400 }

GainSamples == { 0, bits12 }

VmSamples == { 0, 3000 }

StimSamples == { 0, bits12 }

(***************************************************************************)
(* Actions: one per command source and one per update_* function.  Spec    *)
(* lets them follow one another in any order: the loop that calls the      *)
(* update_* functions one after the other is a particular schedule of it.  *)
(***************************************************************************)
\* A line "cmd [arg]" read from Serial and dispatched by SerialCommand.
SerialLine(cmd, arg) ==
    /\ nops < MaxOps
    /\ Becomes(SerialFunctions(Cur, cmd, arg))
    /\ nops' = nops + 1

\* A token handed to dispatchToken by the WebSocket event handler.
WifiToken(cmd, arg) ==
    /\ nops < MaxOps
    /\ Becomes(dispatchToken(Cur, cmd, arg.has, arg.v))
    /\ nops' = nops + 1

SerialCommand ==
    \E cmd \in Vocabulary \cup UnknownNames :
        \E arg \in ArgsOf(cmd) : SerialLine(cmd, arg)

WifiCommand ==
    \E cmd \in Vocabulary \cup UnknownNames :
        \E arg \in ArgsOf(cmd) : WifiToken(cmd, arg)

Tick_InputCurrent ==
    \E raw \in ClampSamples :
        /\ nops < MaxOps
        /\ Becomes(update_InputCurrent(Cur, raw))
        /\ nops' = nops + 1

Tick_Noise ==
    \E raw \in NoiseSamples : \E z \in GaussDraws :
        /\ nops < MaxOps
        /\ Becomes(update_Noise(Cur, raw, z))
        /\ nops' = nops + 1

Tick_Photodiode ==
    \E raw \in PDSamples : \E rawPot \in ClampSamples :
        /\ nops < MaxOps
        /\ Becomes(update_Photodiode(Cur, raw, rawPot))
        /\ nops' = nops + 1

Tick_Synapse(which, defaultDecay) ==
    \E spikeState \in { LOW, HIGH } :
        \E rawPot \in GainSamples : \E rawAnalog \in VmSamples :
            /\ nops < MaxOps
            /\ Becomes(update_Synapse(Cur, which, defaultDecay,
                                      spikeState, rawPot, rawAnalog))
            /\ nops' = nops + 1

Tick_Synapse1 == Tick_Synapse("syn1", defaultDecay1)

Tick_Synapse2 == Tick_Synapse("syn2", defaultDecay2)

Tick_StimulusOutput ==
    \E rawStr \in StimSamples : \E rawFreq \in StimSamples :
        /\ nops < MaxOps
        /\ Becomes(update_StimulusOutput(Cur, rawStr, rawFreq))
        /\ nops' = nops + 1

Tick ==
    \/ Tick_InputCurrent
    \/ Tick_Noise
    \/ Tick_Photodiode
    \/ Tick_Synapse1
    \/ Tick_Synapse2
    \/ Tick_StimulusOutput

Next ==
    \/ SerialCommand
    \/ WifiCommand
    \/ Tick_InputCurrent
    \/ Tick_Noise
    \/ Tick_Photodiode
    \/ Tick_Synapse1
    \/ Tick_Synapse2
    \/ Tick_StimulusOutput

Spec == Init /\ [][Next]_vars

(***************************************************************************)
(* The neuron: the sum of the currents (Core_functions.h) and the          *)
(* integration step.  The function that integrates the model is not among  *)
(* the sources; integrate follows the design document, section 4.1:        *)
(*   v' = 0.04*v^2 + 5*v + 140 - u + totalCurrent ;  u' = a*(b*v - u)      *)
(*   v += v' * dt ; u += u' * dt                                           *)
(*   if v >= peak_threshold: v = c ; u += d ; spiked = true                *)
(*   else: spiked = false                                                  *)
(***************************************************************************)
compute_AllCurrent(s) ==
    [s EXCEPT !.neuron.total_current =
        s.IC.current_clamp + s.IC.current + s.PD.current
        + s.syn1.current + s.syn2.current + s.noise.current]

integrate(s) ==
    LET n  == s.neuron
        dv == MulFP(40, MulFP(n.v, n.v)) + 5 * n.v + 140 * FP - n.u
              + n.total_current
        du == MulFP(n.a, MulFP(n.b, n.v) - n.u)
        v1 == n.v + MulFP(dv, n.dt_ms)
        u1 == n.u + MulFP(du, n.dt_ms)
    IN  IF v1 >= n.Vm_peak
        THEN [s EXCEPT !.neuron.v = n.c,
                       !.neuron.u = u1 + n.d,
                       !.neuron.spike = TRUE]
        ELSE [s EXCEPT !.neuron.v = v1,
                       !.neuron.u = u1,
                       !.neuron.spike = FALSE]

\* The commands that reach the neuron: the preset and the clamp current.
NeuronCommands == { "NEU", "IC1" }

NeuronSerialLine(cmd, arg) ==
    /\ nops < MaxNeuronCmds
    /\ Becomes(SerialFunctions(Cur, cmd, arg))
    /\ nops' = nops + 1

NeuronWifiToken(cmd, arg) ==
    /\ nops < MaxNeuronCmds
    /\ Becomes(dispatchToken(Cur, cmd, arg.has, arg.v))
    /\ nops' = nops + 1

NeuronSerialCommand ==
    \E cmd \in NeuronCommands : \E arg \in ArgsOf(cmd) :
        NeuronSerialLine(cmd, arg)

NeuronWifiCommand ==
    \E cmd \in NeuronCommands : \E arg \in ArgsOf(cmd) :
        NeuronWifiToken(cmd, arg)

\* One tick of the neuron: the currents are summed, then integrated.
Tick_Neuron ==
    /\ nops < MaxNeuronOps
    /\ Becomes(integrate(compute_AllCurrent(Cur)))
    /\ nops' = nops + 1

NextNeuron == NeuronSerialCommand \/ NeuronWifiCommand \/ Tick_Neuron

SpecNeuron == Init /\ [][NextNeuron]_vars

(***************************************************************************)
(* The command vocabulary as the interface documents it: for each set      *)
(* command the parameter it targets, its autonomy flag and its factor      *)
(* num/den; for each clear command the flag it restores.                   *)
(***************************************************************************)
TargetOf(cmd) ==
    CASE cmd \in { "FR1", "FR0" } ->
            [unit |-> "stim", flag |-> "frequency_enable", param |-> "freq",
             num |-> 1, den |-> 1]
      [] cmd \in { "ST1", "ST0" } ->
            [unit |-> "stim", flag |-> "strength_enable",
             param |-> "str_digital", num |-> 1, den |-> 1]
      [] cmd \in { "SC1", "SC0" } ->
            [unit |-> "stim", flag |-> "custom_enable",
             param |-> "value_custom", num |-> 1, den |-> 1]
      [] cmd \in { "PG1", "PG0" } ->
            [unit |-> "PD", flag |-> "gain_enable", param |-> "gain",
             num |-> 1, den |-> 10]
      [] cmd \in { "PD1", "PD0" } ->
            [unit |-> "PD", flag |-> "decay_enable", param |-> "decay",
             num |-> 1, den |-> 1]
      [] cmd \in { "PR1", "PR0" } ->
            [unit |-> "PD", flag |-> "recovery_enable", param |-> "recovery",
             num |-> 1, den |-> 1]
      [] cmd \in { "IC1", "IC0" } ->
            [unit |-> "IC", flag |-> "enable", param |-> "current_clamp",
             num |-> 1, den |-> 1]
      [] cmd \in { "NO1", "NO0" } ->
            [unit |-> "noise", flag |-> "enable", param |-> "current",
             num |-> 1, den |-> 1]
      [] cmd \in { "SG11", "SG10" } ->
            [unit |-> "syn1", flag |-> "gain_enable", param |-> "gain",
             num |-> 1, den |-> 4]
      [] cmd \in { "SD11", "SD10" } ->
            [unit |-> "syn1", flag |-> "decay_enable", param |-> "decay",
             num |-> 1, den |-> 1000]
      [] cmd \in { "SG21", "SG20" } ->
            [unit |-> "syn2", flag |-> "gain_enable", param |-> "gain",
             num |-> 1, den |-> 4]
      [] cmd \in { "SD21", "SD20" } ->
            [unit |-> "syn2", flag |-> "decay_enable", param |-> "decay",
             num |-> 1, den |-> 1000]

\* Some step of either transport that delivers cmd with argument arg.
Delivered(cmd, arg) == SerialLine(cmd, arg) \/ WifiToken(cmd, arg)

\* What the line transport and the network transport make of s when they
\* receive cmd with argument arg.
BySerial(s, cmd, arg) == SerialFunctions(s, cmd, arg)

ByWifi(s, cmd, arg) == dispatchToken(s, cmd, arg.has, arg.v)

(***************************************************************************)
(* C1.  A tick leaves every conditioned parameter whose autonomy flag is   *)
(* false unchanged, whatever the raw samples: the clamp current, the       *)
(* noise current, the photodiode gain, decay and recovery, the gain and    *)
(* decay of both synapses, the stimulus frequency and the two stimulus     *)
(* strengths.  (So after IC1 120.0 the clamp current is 120.0 after every  *)
(* tick until the next IC1 or IC0.)                                        *)
(***************************************************************************)
\* In t every parameter that is under manual control in s is as in s.
ManualHeld(s, t) ==
    /\ ~s.IC.enable => t.IC.current_clamp = s.IC.current_clamp
    /\ ~s.noise.enable => t.noise.current = s.noise.current
    /\ ~s.PD.gain_enable => t.PD.gain = s.PD.gain
    /\ ~s.PD.decay_enable => t.PD.decay = s.PD.decay
    /\ ~s.PD.recovery_enable => t.PD.recovery = s.PD.recovery
    /\ ~s.syn1.gain_enable => t.syn1.gain = s.syn1.gain
    /\ ~s.syn1.decay_enable => t.syn1.decay = s.syn1.decay
    /\ ~s.syn2.gain_enable => t.syn2.gain = s.syn2.gain
    /\ ~s.syn2.decay_enable => t.syn2.decay = s.syn2.decay
    /\ ~s.stim.frequency_enable => t.stim.freq = s.stim.freq
    /\ ~s.stim.strength_enable =>
           /\ t.stim.str_digital = s.stim.str_digital
           /\ t.stim.str_analog = s.stim.str_analog

C1_ManualHeldByTick == [][ManualHeld(Cur, Cur') \/ ~Tick]_vars

\* PG1 120.0 was received and update_Photodiode then ran with the gain
\* under manual control.
C1_Witness == ~PD.gain_enable /\ PD.gain = 12 * FP /\ PD.counter = 1

(***************************************************************************)
(* C2.  A set command received with argument x clears the autonomy flag    *)
(* of its target, stores exactly x times the command's factor (for FR1,    *)
(* SC1 and ST1 the integer x, ST1 into both strengths) and changes         *)
(* nothing else, on either transport.                                      *)
(***************************************************************************)
\* t is s after the set command cmd with argument v.
SetEffect(s, t, cmd, v) ==
    LET tg     == TargetOf(cmd)
        stored == t[tg.unit][tg.param]
        held   == [s EXCEPT ![tg.unit][tg.flag] = FALSE,
                            ![tg.unit][tg.param] = stored]
    IN  IF cmd \in FloatSetCommands
        THEN /\ stored * tg.den = v * tg.num
             /\ t = held
        ELSE /\ stored * FP = v
             /\ t = IF cmd = "ST1"
                    THEN [held EXCEPT !.stim.str_analog = stored]
                    ELSE held

\* The arguments C2 speaks of: any number for a float parameter, whole
\* numbers for an integer parameter.
SetValuesOf(cmd) ==
    { w \in ValuesOf(cmd) : cmd \in IntSetCommands => w % FP = 0 }

C2_SetStoresScaledValue ==
    \A cmd \in SetCommands : \A v \in SetValuesOf(cmd) :
        /\ SetEffect(Cur, BySerial(Cur, cmd, Arg(v)), cmd, v)
        /\ SetEffect(Cur, ByWifi(Cur, cmd, Arg(v)), cmd, v)

\* PG1 120.0 and ST1 120 were received.
C2_Witness ==
    /\ ~PD.gain_enable /\ PD.gain = 12 * FP
    /\ ~stim.strength_enable
    /\ stim.str_digital = 120 /\ stim.str_analog = 120

(***************************************************************************)
(* C3.  A clear command sets the paired autonomy flag to true and nothing  *)
(* else: when it returns, every parameter value and every other flag is    *)
(* as before.                                                              *)
(***************************************************************************)
ClearEffect(s, t, cmd) ==
    LET tg == TargetOf(cmd)
    IN  t = [s EXCEPT ![tg.unit][tg.flag] = TRUE]

C3_ClearRestoresFlagOnly ==
    \A cmd \in ClearCommands :
        /\ ClearEffect(Cur, BySerial(Cur, cmd, NoArg), cmd)
        /\ ClearEffect(Cur, ByWifi(Cur, cmd, NoArg), cmd)

\* IC1 120.0, then IC0: the flag is back and the commanded value is still
\* there (no sample of the potentiometer gives 120.0).
C3_Witness == IC.enable /\ IC.current_clamp = 120 * FP

(***************************************************************************)
(* C4.  A set command received without its numeric argument is rejected    *)
(* as a whole: neither the stored value nor the autonomy flag of its       *)
(* target changes, on the line transport and on the network transport.     *)
(***************************************************************************)
C4_ArgumentlessSetRejected ==
    [][\A cmd \in SetCommands :
          Delivered(cmd, NoArg) =>
              UNCHANGED <<IC, noise, PD, syn1, syn2, stim>>]_vars

(***************************************************************************)
(* C5.  A command whose name is not in the vocabulary changes no           *)
(* parameter, autonomy flag, stimulus state, neuron state or streaming     *)
(* setting on either transport (only the report written to the transport   *)
(* may be new), and the update_* functions then compute what they would    *)
(* have computed without it.                                               *)
(***************************************************************************)
\* s and t differ at most in what has been written to the transports.
SameButOutputs(s, t) ==
    [t EXCEPT !.serialOut = s.serialOut, !.wsOut = s.wsOut] = s

\* One round of the update_* functions on mid-scale samples.
UpdateRound(s) ==
    LET s1 == update_InputCurrent(s, 3000)
        s2 == update_Noise(s1, 3000, FP)
        s3 == update_Photodiode(s2, 400, 3000)
        s4 == update_Synapse(s3, "syn1", defaultDecay1, HIGH, 3000, 3000)
        s5 == update_Synapse(s4, "syn2", defaultDecay2, LOW, 3000, 3000)
    IN  update_StimulusOutput(s5, 3000, 3000)

C5_UnknownNameChangesNothing ==
    LET after == UpdateRound(Cur)
    IN  \A cmd \in UnknownNames : \A arg \in ArgsOf(cmd) :
            LET bySerial == BySerial(Cur, cmd, arg)
                byWifi   == ByWifi(Cur, cmd, arg)
            IN  /\ SameButOutputs(Cur, bySerial)
                /\ SameButOutputs(after, UpdateRound(bySerial))
                /\ SameButOutputs(Cur, byWifi)
                /\ SameButOutputs(after, UpdateRound(byWifi))

\* An unknown name was received on the line transport.
C5_Witness ==
    /\ Len(serialOut) >= 1
    /\ serialOut[1] = <<"Unknown command: ", "XYZ">>

(***************************************************************************)
(* C6.  Every malformed command (unknown name, or set command without its  *)
(* argument) produces a report to the transport that issued it: a line     *)
(* on Serial for the line transport, a message on the WebSocket for the    *)
(* network transport.                                                      *)
(***************************************************************************)
Malformed(cmd, arg) ==
    \/ cmd \in UnknownNames
    \/ cmd \in SetCommands /\ ~arg.has

C6_MalformedIsReported ==
    [][\A cmd \in SetCommands \cup UnknownNames : \A arg \in ArgsOf(cmd) :
          Malformed(cmd, arg) =>
              /\ SerialLine(cmd, arg) => Len(serialOut') = Len(serialOut) + 1
              /\ WifiToken(cmd, arg) => Len(wsOut') = Len(wsOut) + 1]_vars

(***************************************************************************)
(* C7.  For every command name of the vocabulary and every argument        *)
(* (present or absent), the handler registered in SerialFunctions and      *)
(* dispatchToken take the same starting state to the same resulting        *)
(* state: parameters, autonomy flags, tick period, neuron state.           *)
(***************************************************************************)
CommandState(s) ==
    <<s.timing, s.neuron, s.currentModel, s.IC, s.noise, s.PD, s.syn1,
      s.syn2, s.stim>>

C7_TransportsAgree ==
    \A cmd \in Vocabulary : \A arg \in ArgsOf(cmd) :
        CommandState(BySerial(Cur, cmd, arg))
            = CommandState(ByWifi(Cur, cmd, arg))

(***************************************************************************)
(* C8.  For every preset index outside [0, 20) (20 and above, and a        *)
(* negative index as the handlers convert it to unsigned), NEU leaves the  *)
(* system in the same state as NEU 0, and the parameter table is never     *)
(* indexed outside its 20 entries.                                         *)
(***************************************************************************)
\* Indices outside the table, as numerals: negative ones, the first one
\* past the end, the limits of 8 and 16 bits, and large ones.
OutOfRangeIndices ==
    { -1 * FP, -20 * FP, -Half * FP, IzhikevichModelCount * FP, 21 * FP,
      255 * FP, 256 * FP, 276 * FP, (Half + 3) * FP, 100000 * FP }

TableIndices == 0 .. (IzhikevichModelCount - 1)

C8_OutOfRangePresetIsPresetZero ==
    LET zeroBySerial == BySerial(Cur, "NEU", Arg(0))
        zeroByWifi   == ByWifi(Cur, "NEU", Arg(0))
    IN  /\ currentModel \in TableIndices
        /\ \A v \in OutOfRangeIndices :
              /\ clampToModel(ToUint32(atoi(v))) \in TableIndices
              /\ clampToModel(ToUint32(IntOf(v))) \in TableIndices
              /\ BySerial(Cur, "NEU", Arg(v)) = zeroBySerial
              /\ ByWifi(Cur, "NEU", Arg(v)) = zeroByWifi

\* NEU -1 or NEU 20 was received: preset 0 is active with u = b * v_rest
\* (u is 0 until the first selection).
C8_Witness == currentModel = 0 /\ neuron.u = -14 * FP

(***************************************************************************)
(* C9.  After selecting a valid preset i, a, b, c, d and v_rest equal      *)
(* table entry i, currentModel is i, v is the v_rest of entry i and u is   *)
(* b * v_rest of entry i.                                                  *)
(***************************************************************************)
PresetLoaded(t, i) ==
    LET e == izhikevich[i + 1]
    IN  /\ t.currentModel = i
        /\ t.neuron.a = e.a
        /\ t.neuron.b = e.b
        /\ t.neuron.c = e.c
        /\ t.neuron.d = e.d
        /\ t.neuron.v_rest = e.v_rest
        /\ t.neuron.v = e.v_rest
        /\ t.neuron.u = MulFP(e.b, e.v_rest)

C9_PresetLoadedWhole ==
    \A i \in TableIndices :
        /\ PresetLoaded(BySerial(Cur, "NEU", Arg(i * FP)), i)
        /\ PresetLoaded(ByWifi(Cur, "NEU", Arg(i * FP)), i)

\* NEU 19 was received: entry 19 is (0.026, -1, -45, -2, -63.8).
C9_Witness ==
    /\ currentModel = 19
    /\ neuron.a = 26 /\ neuron.b = -FP /\ neuron.c = -45 * FP
    /\ neuron.v = -63800 /\ neuron.u = 63800

(***************************************************************************)
(* C10.  As stated: at the end of every tick and after every preset        *)
(* selection, v lies in [c, peak] for the active preset.                   *)
(***************************************************************************)
\* A step that selects a preset.
PresetSelected ==
    \E v \in ValuesOf("NEU") :
        NeuronSerialLine("NEU", Arg(v)) \/ NeuronWifiToken("NEU", Arg(v))

C10_PotentialBetweenResetAndPeak ==
    [][(neuron.c' <= neuron.v' /\ neuron.v' <= neuron.Vm_peak')
       \/ ~(Tick_Neuron \/ PresetSelected)]_vars

(***************************************************************************)
(* C10, amended.  At the end of every tick and after every preset          *)
(* selection, v is below the peak threshold: the tick that detects a       *)
(* spike leaves v = c with spike set, and a tick that detects none leaves  *)
(* spike clear.  (v is not bounded below by c.)                            *)
(***************************************************************************)
C10_PotentialBelowPeak ==
    [][(/\ neuron.v' < neuron.Vm_peak'
        /\ Tick_Neuron /\ neuron.spike' => neuron.v' = neuron.c)
       \/ ~(Tick_Neuron \/ PresetSelected)]_vars

\* A tick has detected a spike and reset v.
C10_Witness == neuron.spike /\ neuron.v = neuron.c /\ neuron.u # 0

(***************************************************************************)
(* SpecTelemetry: commands that set the clamp current, the preset and the  *)
(* stimulus strength, the tick functions that feed the packet, and         *)
(* send_SamplePacket, in any order.                                        *)
(***************************************************************************)
\* The commands tried, with their numerals.
TelemetryLines ==
    { <<"IC1", 120 * FP>>, <<"IC1", 400 * FP>>, <<"NEU", 19 * FP>>,
      <<"ST1", 50 * FP>> }

Tele_Command ==
    \E line \in TelemetryLines :
        /\ nops < MaxTelemetryOps
        /\ Becomes(SerialFunctions(Cur, line[1], Arg(line[2])))
        /\ nops' = nops + 1

Tele_Synapse ==
    \E spikeState \in { LOW, HIGH } : \E rawAnalog \in VmSamples :
        /\ nops < MaxTelemetryOps
        /\ Becomes(update_Synapse(Cur, "syn1", defaultDecay1,
                                  spikeState, bits12, rawAnalog))
        /\ nops' = nops + 1

Tele_StimulusOutput ==
    /\ nops < MaxTelemetryOps
    /\ Becomes(update_StimulusOutput(Cur, bits12, bits12))
    /\ nops' = nops + 1

Tele_AllCurrent ==
    /\ nops < MaxTelemetryOps
    /\ Becomes(compute_AllCurrent(Cur))
    /\ nops' = nops + 1

Tele_Spike ==
    /\ nops < MaxTelemetryOps
    /\ Becomes(update_Spike(Cur))
    /\ nops' = nops + 1

Tele_Send ==
    \E ub \in Int16Outcomes :
        /\ nops < MaxTelemetryOps
        /\ Becomes(send_SamplePacket(Cur, ub))
        /\ nops' = nops + 1

NextTelemetry ==
    \/ Tele_Command
    \/ Tele_Synapse
    \/ Tele_StimulusOutput
    \/ Tele_AllCurrent
    \/ Tele_Spike
    \/ Tele_Send

SpecTelemetry == Init /\ [][NextTelemetry]_vars

\* The signed 16-bit value held by bytes 2k+1 and 2k+2 of the frame f
\* (k = 1 .. 8), low byte first.
FieldOf(f, k) ==
    LET u == f[2 * k + 1] + 256 * f[2 * k + 2]
    IN  IF u > Int16Max THEN u - Half ELSE u

\* The scaled value x / FP fits an int16_t once rounded.
FitsInt16(x) == Int16Min * FP <= x - FP \div 2 /\ x + FP \div 2 <= Int16Max * FP

\* The integer q is the scaled value x / FP to within half a step.
Near(q, x) == Abs(q * FP - x) <= FP \div 2

\* Field k of f is the scaled value x / FP rounded, when that fits.
Carries(f, k, x) == FitsInt16(x) => Near(FieldOf(f, k), x)

(***************************************************************************)
(* C11.  Every frame written to the stream transport is the two bytes      *)
(* 0xAA 0x55 followed by exactly 16 payload bytes: eight signed 16-bit     *)
(* fields in the order v, stimState, totalCurrent, syn1Vm, syn1Current,    *)
(* syn2Vm, syn2Current, trigger, each computed from the state in which     *)
(* send_SamplePacket is called.                                            *)
(***************************************************************************)
C11_FrameLayout ==
    \A ub \in Int16Outcomes :
        LET f == send_SamplePacket(Cur, ub).serialFrame
        IN  /\ Len(f) = 18
            /\ f[1] = 170 /\ f[2] = 85
            /\ \A k \in 3 .. 18 : f[k] \in 0 .. 255
            /\ Carries(f, 1, neuron.v_out * V_SCALE)
            /\ FieldOf(f, 2) = WrapInt16(stim.state)
            /\ Carries(f, 3, neuron.total_current * I_SCALE)
            /\ Carries(f, 4, syn1.Vm * SYN_V_SCALE)
            /\ Carries(f, 5, syn1.current * I_SCALE)
            /\ Carries(f, 6, syn2.Vm * SYN_V_SCALE)
            /\ Carries(f, 7, syn2.current * I_SCALE)
            /\ FieldOf(f, 8) = WrapInt16(stim.trigger)

\* A frame was written with v_out = -63.8 and total current 120.
C11_Witness ==
    /\ Len(serialFrame) = 18
    /\ FieldOf(serialFrame, 1) = -6380
    /\ FieldOf(serialFrame, 3) = 12000

(***************************************************************************)
(* C12.  For every value that v_out, total_current, a synapse current or   *)
(* a synapse voltage takes in a reachable state, the telemetry field       *)
(* decodes (field / scale) to the value within half a quantization step:   *)
(* value * scale always fits [-32768, 32767].                              *)
(***************************************************************************)
C12_FieldsDecodeWithinHalfStep ==
    \A ub \in Int16Outcomes :
        LET p == send_SamplePacket(Cur, ub).pkt
        IN  /\ Near(p.v_q, neuron.v_out * V_SCALE)
            /\ Near(p.Itot_q, neuron.total_current * I_SCALE)
            /\ Near(p.syn1_vm_q, syn1.Vm * SYN_V_SCALE)
            /\ Near(p.Isyn1_q, syn1.current * I_SCALE)
            /\ Near(p.syn2_vm_q, syn2.Vm * SYN_V_SCALE)
            /\ Near(p.Isyn2_q, syn2.current * I_SCALE)

(***************************************************************************)
(* SpecStream: JSON messages from the network client and calls of          *)
(* wifiSendSamplePacket, in any order.  wsLog starts afresh whenever a     *)
(* message changes the enable flag or the decimation.                      *)
(***************************************************************************)
\* The decimations a client asks for: negative, zero, inside the range, at
\* its ends, just beyond it and beyond 16 bits.
DecimValues == { -7, 0, 1, 2, 3, 500, 501, 70000 }

StreamDocs ==
    { Doc("stream", FALSE, FALSE, FALSE, 0) }
    \cup { Doc("stream", TRUE, e, FALSE, 0) : e \in BOOLEAN }
    \cup { Doc("stream", FALSE, FALSE, TRUE, d) : d \in DecimValues }
    \cup { Doc("stream", TRUE, e, TRUE, d) : e \in BOOLEAN, d \in DecimValues }

\* Envelopes the handler cannot use: a text that does not parse (cut short
\* in a stream message), a document of unknown type, one with no type, and
\* scmd documents with no cmd.
MalformedDocs ==
    { [Doc("stream", TRUE, TRUE, TRUE, 5) EXCEPT !.err = TRUE],
      Doc("hello", TRUE, TRUE, TRUE, 5), Doc("", TRUE, TRUE, TRUE, 5),
      ScmdDoc("", FALSE, 0), ScmdDoc("", TRUE, 120 * FP) }

OtherDocs ==
    { Doc("ping", FALSE, FALSE, FALSE, 0), ScmdDoc("IC1", TRUE, 120 * FP),
      ScmdDoc("", FALSE, 0), Doc("hello", FALSE, FALSE, FALSE, 0) }
    \cup MalformedDocs

Stream_Message ==
    \E doc \in StreamDocs \cup OtherDocs :
        /\ nops < MaxStreamOps
        /\ GlobalsBecome(handleCommandJson(Cur, doc))
        /\ wsLog' = IF wifiStream' = wifiStream THEN wsLog ELSE << >>
        /\ nops' = nops + 1
        /\ UNCHANGED <<tickLog, race>>

Stream_Send ==
    /\ nops < MaxStreamOps
    /\ GlobalsBecome(wifiSendSamplePacket(Cur, pkt))
    /\ wsLog' = Append(wsLog, IF Len(wsOut') > Len(wsOut) THEN 1 ELSE 0)
    /\ nops' = nops + 1
    /\ UNCHANGED <<tickLog, race>>

NextStream == Stream_Message \/ Stream_Send

SpecStream == Init /\ [][NextStream]_vars

\* The number of broadcasts among calls i .. j of the period.
Broadcasts(i, j) == Cardinality({ k \in i .. j : wsLog[k] = 1 })

\* The calls since the last broadcast of the period.
SinceLast ==
    Len(wsLog) - CHOOSE k \in 1 .. Len(wsLog) :
                     wsLog[k] = 1 /\ \A j \in (k + 1) .. Len(wsLog) : wsLog[j] = 0

\* While streaming is off no call broadcasts and a call changes nothing,
\* the counter included.
SilentWhileDisabled ==
    ~wifiStream.enabled =>
        /\ \A i \in 1 .. Len(wsLog) : wsLog[i] = 0
        /\ wifiSendSamplePacket(Cur, pkt) = Cur

C14_DecimationClamped ==
    /\ wifiStream.decim \in 1 .. 500
    /\ \A doc \in StreamDocs :
           LET t == handleCommandJson(Cur, doc)
           IN  /\ t.wifiStream.decim \in 1 .. 500
               /\ doc.hasDecim =>
                      t.wifiStream.decim =
                          IF doc.decim < 1 THEN 1
                          ELSE IF doc.decim > 500 THEN 500 ELSE doc.decim
               /\ ~doc.hasDecim => t.wifiStream.decim = wifiStream.decim

\* Streaming is on with the decimation at the upper end, and a call has
\* been counted.
C14_Witness ==
    wifiStream.enabled /\ wifiStream.decim = 500 /\ wifiStream.cnt = 2

(***************************************************************************)
(* SpecAuto: the stimulus generator left in Auto mode with the frequency   *)
(* at 0, either read from the potentiometer at mid-travel or held there by *)
(* an FR1 0 among the first operations, over more than two whole duty      *)
(* cycles.                                                                 *)
(***************************************************************************)
\* The reading of the frequency potentiometer that maps to 0.
FreqPotAtZero == bits12 \div 2

\* The lines that keep the frequency at 0.
ZeroFrequencyLines == { <<"FR1", Arg(0)>>, <<"FR0", NoArg>> }

Auto_HoldFrequency ==
    \E line \in ZeroFrequencyLines :
        /\ nops < MaxAutoCmds
        /\ Becomes(SerialFunctions(Cur, line[1], line[2]))
        /\ nops' = nops + 1

Auto_Tick ==
    \E rawStr \in StimSamples :
        /\ nops < MaxAutoTicks
        /\ Becomes(update_StimulusOutput(Cur, rawStr, FreqPotAtZero))
        /\ nops' = nops + 1

NextAuto == Auto_HoldFrequency \/ Auto_Tick

SpecAuto == Init /\ [][NextAuto]_vars

\* The counter has wrapped at least once: the very first tick wraps it, and
\* every later state has the trigger flag up, the trigger out or a count.
Wrapped == stim.trigger_enable \/ stim.trigger = 1 \/ stim.counter > 0

(***************************************************************************)
(* C15.  In Auto mode with stim.freq held at 0, from the first wraparound  *)
(* of the counter on, stim.steps is dutyCycle + dutyCycle_Min = 510, and   *)
(* no later tick changes it.                                               *)
(***************************************************************************)
C15_StepsSettleAt510 ==
    /\ stim.custom_enable /\ stim.freq = 0
    /\ stim.dutyCycle + stim.dutyCycle_Min = 510
    /\ Wrapped => stim.steps = 510
    /\ \A rawStr \in StimSamples :
           update_StimulusOutput(Cur, rawStr, FreqPotAtZero).stim.steps = 510

\* The third duty cycle is under way: the counter has wrapped at 510 twice.
C15_Witness ==
    /\ nops > 2 * 510
    /\ stim.steps = 510
    /\ stim.counter = 3
    /\ ~stim.frequency_enable

(***************************************************************************)
(* SpecStim: the stimulus commands and update_StimulusOutput, in any       *)
(* order.  FR1 -100 and FR1 -101 give duty cycles of 10 and of 5 ticks.    *)
(***************************************************************************)
StimLines ==
    { <<"FR1", Arg(-100 * FP)>>, <<"FR1", Arg(-101 * FP)>>, <<"FR0", NoArg>>,
      <<"ST1", Arg(50 * FP)>>, <<"ST1", Arg(-50 * FP)>>, <<"ST1", Arg(FP)>>,
      <<"ST0", NoArg>>, <<"SC1", Arg(120 * FP)>>, <<"SC0", NoArg>>,
      <<"TR", NoArg>> }

Stim_Command ==
    \E line \in StimLines :
        /\ nops < MaxStimOps
        /\ Becomes(SerialFunctions(Cur, line[1], line[2]))
        /\ nops' = nops + 1

Stim_Tick ==
    \E rawStr \in StimSamples : \E rawFreq \in StimSamples :
        /\ nops < MaxStimOps
        /\ Becomes(update_StimulusOutput(Cur, rawStr, rawFreq))
        /\ nops' = nops + 1

NextStim == Stim_Command \/ Stim_Tick

SpecStim == Init /\ [][NextStim]_vars

\* The state after a tick that reads rawStr and rawFreq.
AfterTick(rawStr, rawFreq) == update_StimulusOutput(Cur, rawStr, rawFreq).stim

C17_OneTriggerPerCycle ==
    stim.custom_enable =>
        \A rawStr \in StimSamples : \A rawFreq \in StimSamples :
            (AfterTick(rawStr, rawFreq).trigger = 1) <=> (stim.counter = 0)

(***************************************************************************)
(* C18.  In Custom mode stim.trigger is 1 on a tick if and only if         *)
(* serialTrigger_enable was set when the tick read it, the tick clears the *)
(* flag, TR sets it and no other command or tick does.                     *)
(***************************************************************************)
C18_ManualTriggerConsumedOnce ==
    /\ BySerial(Cur, "TR", NoArg).stim.serialTrigger_enable
    /\ ByWifi(Cur, "TR", NoArg).stim.serialTrigger_enable
    /\ \A line \in StimLines :
           line[1] # "TR" =>
               BySerial(Cur, line[1], line[2]).stim.serialTrigger_enable
                   = stim.serialTrigger_enable
    /\ \A rawStr \in StimSamples : \A rawFreq \in StimSamples :
           LET t == AfterTick(rawStr, rawFreq)
           IN  IF stim.custom_enable
               THEN t.serialTrigger_enable = stim.serialTrigger_enable
               ELSE /\ (t.trigger = 1) <=> stim.serialTrigger_enable
                    /\ t.trigger \in { 0, 1 }
                    /\ ~t.serialTrigger_enable

\* A Custom tick has consumed a TR: the trigger is out and the flag is
\* down.
C18_Witness ==
    /\ ~stim.custom_enable
    /\ stim.trigger = 1
    /\ ~stim.serialTrigger_enable
    /\ stim.state = 120

(***************************************************************************)
(* SpecRace: a command handler and a tick function that run concurrently,  *)
(* as design section 5 allows (the handlers "may fire between or, without  *)
(* external synchronization, concurrently with a tick").  Each process     *)
(* advances by one read or write of a shared global at a time; race holds  *)
(* the position of each (tick, cmd), what it is running (tfn, cfn), its    *)
(* argument (x, raw), and what the tick function has read so far (fromPot, *)
(* r1, r2, seen).  At most one handler and one tick function are in        *)
(* flight.                                                                 *)
(***************************************************************************)
\* The command lines whose handlers are run write by write.
RaceCommands ==
    { <<"IC1", 120 * FP>>, <<"ST1", 50 * FP>>, <<"ST1", -50 * FP>>,
      <<"NEU", 3 * FP>>, <<"NEU", 0>> }

\* The tick functions that are run access by access.  integrate stands for
\* the integration step, which reads the parameters and the state of the
\* neuron.
RaceTickFns == { "update_InputCurrent", "update_StimulusOutput", "integrate" }

\* The writes of a handler, in program order: setFloatParam / applyFloat
\* (flag, parameter), StimStr_on (flag, str_digital, str_analog),
\* SetNeuronModel (currentModel, a, b, c, d, v_rest, v, u).
WritesOf(cfn) ==
    IF cfn = "IC1" THEN <<"flag", "param">>
    ELSE IF cfn = "ST1" THEN <<"flag", "str_digital", "str_analog">>
    ELSE <<"currentModel", "a", "b", "c", "d", "v_rest", "v", "u">>

\* The write that follows the write pc of handler cfn, or "idle" after the
\* last one.
NextWrite(cfn, pc) ==
    LET w == WritesOf(cfn)
        i == CHOOSE k \in 1 .. Len(w) : w[k] = pc
    IN  IF i = Len(w) THEN "idle" ELSE w[i + 1]

\* The globals after the write pc of handler cfn with the numeral x: the
\* value written is the one the handler, run from s, would store.
CommandWrite(s, cfn, x, pc) ==
    LET done == SerialFunctions(s, cfn, Arg(x))
    IN  IF cfn = "IC1"
        THEN IF pc = "flag" THEN [s EXCEPT !.IC.enable = FALSE]
             ELSE [s EXCEPT !.IC.current_clamp = done.IC.current_clamp]
        ELSE IF cfn = "ST1"
        THEN IF pc = "flag" THEN [s EXCEPT !.stim.strength_enable = FALSE]
             ELSE [s EXCEPT !.stim[pc] = done.stim[pc]]
        ELSE IF pc = "currentModel"
        THEN [s EXCEPT !.currentModel = done.currentModel]
        ELSE [s EXCEPT !.neuron[pc] = done.neuron[pc]]

\* The parameters and the state of the neuron that the integration reads.
NeuronSet(n) == <<n.a, n.b, n.c, n.d, n.v_rest, n.v, n.u>>

\* The first access of a tick function.
FirstAccess(tfn) == IF tfn = "integrate" THEN "observe" ELSE "test"

\* One access of the tick function r.tfn at position r.tick: the globals
\* and the registers after it.
\*   update_InputCurrent: test of IC.enable, write of pot_value, write of
\*     current_clamp.
\*   update_StimulusOutput: test of the flags; with both set, the writes of
\*     str_digital and str_analog from the potentiometer; in Auto mode the
\*     read of str_digital and then the read of str_analog with the rest of
\*     the function; in Custom mode the Custom branch.  Both potentiometers
\*     read r.raw.
\*   integrate: one read of the whole parameter set.
TickAccess(s, r) ==
    IF r.tfn = "update_InputCurrent"
    THEN LET done == update_InputCurrent([s EXCEPT !.IC.enable = TRUE], r.raw)
         IN  IF r.tick = "test"
             THEN [ s |-> s,
                    r |-> [r EXCEPT !.tick = IF s.IC.enable THEN "pot_value"
                                             ELSE "idle"] ]
             ELSE IF r.tick = "pot_value"
             THEN [ s |-> [s EXCEPT !.IC.pot_value = done.IC.pot_value],
                    r |-> [r EXCEPT !.tick = "current_clamp"] ]
             ELSE [ s |-> [s EXCEPT !.IC.current_clamp = done.IC.current_clamp],
                    r |-> [r EXCEPT !.tick = "idle"] ]
    ELSE IF r.tfn = "update_StimulusOutput"
    THEN IF r.tick = "test"
         THEN [ s |-> s,
                r |-> [r EXCEPT
                         !.fromPot = s.stim.strength_enable
                                     /\ s.stim.custom_enable,
                         !.tick = IF ~s.stim.custom_enable THEN "custom"
                                  ELSE IF s.stim.strength_enable
                                  THEN "w_str_digital"
                                  ELSE "r_str_digital"] ]
         ELSE IF r.tick = "w_str_digital"
         THEN [ s |-> [s EXCEPT !.stim.strPot = r.raw,
                                !.stim.str_digital = StrDigitalOf(r.raw)],
                r |-> [r EXCEPT !.tick = "w_str_analog"] ]
         ELSE IF r.tick = "w_str_analog"
         THEN [ s |-> [s EXCEPT !.stim.str_analog = StrAnalogOf(r.raw)],
                r |-> [r EXCEPT !.tick = "r_str_digital"] ]
         ELSE IF r.tick = "r_str_digital"
         THEN [ s |-> s,
                r |-> [r EXCEPT !.r1 = s.stim.str_digital,
                                !.tick = "r_str_analog"] ]
         ELSE IF r.tick = "r_str_analog"
         THEN LET s1 == [s EXCEPT !.stim.str_digital = r.r1,
                                  !.stim.strength_enable = FALSE,
                                  !.stim.custom_enable = TRUE]
                  t  == update_StimulusOutput(s1, r.raw, r.raw)
              IN  [ s |-> [t EXCEPT
                             !.stim.str_digital = s.stim.str_digital,
                             !.stim.strength_enable = s.stim.strength_enable,
                             !.stim.custom_enable = s.stim.custom_enable],
                    r |-> [r EXCEPT !.r2 = s.stim.str_analog,
                                    !.tick = "idle"] ]
         ELSE LET s1 == [s EXCEPT !.stim.custom_enable = FALSE]
                  t  == update_StimulusOutput(s1, r.raw, r.raw)
              IN  [ s |-> [t EXCEPT
                             !.stim.custom_enable = s.stim.custom_enable],
                    r |-> [r EXCEPT !.tick = "idle"] ]
    ELSE [ s |-> s,
           r |-> [r EXCEPT !.seen = NeuronSet(s.neuron), !.tick = "idle"] ]

Race_StartCommand ==
    \E line \in RaceCommands :
        /\ nops < MaxRaceOps
        /\ race.cmd = "idle"
        /\ race' = [race EXCEPT !.cfn = line[1], !.x = line[2],
                                !.cmd = WritesOf(line[1])[1]]
        /\ nops' = nops + 1
        /\ GlobalsBecome(Cur)
        /\ UNCHANGED <<wsLog, tickLog>>

Race_CommandStep ==
    /\ race.cmd # "idle"
    /\ GlobalsBecome(CommandWrite(Cur, race.cfn, race.x, race.cmd))
    /\ race' = [race EXCEPT !.cmd = NextWrite(race.cfn, race.cmd)]
    /\ UNCHANGED <<nops, wsLog, tickLog>>

Race_StartTick ==
    \E tfn \in RaceTickFns : \E raw \in StimSamples :
        /\ nops < MaxRaceOps
        /\ race.tick = "idle"
        /\ race' = [race EXCEPT !.tfn = tfn, !.raw = raw,
                                !.tick = FirstAccess(tfn),
                                !.fromPot = FALSE, !.r1 = 0, !.r2 = 0]
        /\ nops' = nops + 1
        /\ GlobalsBecome(Cur)
        /\ UNCHANGED <<wsLog, tickLog>>

Race_TickStep ==
    /\ race.tick # "idle"
    /\ LET o == TickAccess(Cur, race)
       IN  GlobalsBecome(o.s) /\ race' = o.r
    /\ UNCHANGED <<nops, wsLog, tickLog>>

NextRace ==
    Race_StartCommand \/ Race_CommandStep \/ Race_StartTick \/ Race_TickStep

SpecRace == Init /\ [][NextRace]_vars

\* Nothing is in flight.
Quiescent == race.tick = "idle" /\ race.cmd = "idle"

\* The values IC1 stores.
CommandedClamps ==
    { SerialFunctions(Cur, line[1], Arg(line[2])).IC.current_clamp :
          line \in { l \in RaceCommands : l[1] = "IC1" } }

(***************************************************************************)
(* C19.  When IC1 x runs concurrently with a tick, whatever the order of   *)
(* their reads and writes, once both have finished the clamp current is x  *)
(* and the flag is false: the parameter is never left with a value derived *)
(* from the potentiometer while the flag says manual.                      *)
(***************************************************************************)
C19_SetSurvivesConcurrentTick ==
    (Quiescent /\ ~IC.enable) => IC.current_clamp \in CommandedClamps

\* The parameter sets of the presets, as SetNeuronModel leaves them, and
\* the one the program starts with.
PresetSets ==
    { NeuronSet(SetNeuronModel(Cur, i).neuron) :
          i \in 0 .. (IzhikevichModelCount - 1) }
    \cup { NeuronSet(neuronInit) }

(***************************************************************************)
(* C20.  No tick sees a command half applied: the parameters and the       *)
(* state of the neuron that a tick reads (a, b, c, d, v_rest, v, u) are    *)
(* those of one preset (or those of power-up), and a tick that reads the   *)
(* two strengths that ST1 writes sees both old or both new, that is, the   *)
(* same number in both.                                                    *)
(***************************************************************************)
C20_NoHalfAppliedCommandSeen ==
    /\ race.seen = << >> \/ race.seen \in PresetSets
    /\ ( /\ race.tick = "idle"
         /\ race.tfn = "update_StimulusOutput"
         /\ ~race.fromPot )
       => race.r1 = race.r2

(***************************************************************************)
(* SpecPhotodiode: update_Photodiode over more than one turn of the ring   *)
(* buffer, after up to MaxPDCmds lines that set the gain; tickLog holds    *)
(* the raw samples read so far.                                            *)
(***************************************************************************)
\* Gains of 0.2, 12 and -0.2 by command, and the potentiometer again.
PhotodiodeLines ==
    { <<"PG1", Arg(2 * FP)>>, <<"PG1", Arg(120 * FP)>>,
      <<"PG1", Arg(-2 * FP)>>, <<"PG0", NoArg>> }

\* Photodiode samples: one that is no multiple of the window, and a bright
\* one.
PhotodiodeSamples == { 7, 400 }

\* The gain potentiometer at mid-travel (gain 0) and at its end.
PhotodiodePots == { bits12 \div 2, bits12 }

PD_Command ==
    \E line \in PhotodiodeLines :
        /\ nops < MaxPDCmds
        /\ Becomes(SerialFunctions(Cur, line[1], line[2]))
        /\ nops' = nops + 1

PD_Tick ==
    \E raw \in PhotodiodeSamples : \E rawPot \in PhotodiodePots :
        /\ nops < MaxPDTicks
        /\ GlobalsBecome(update_Photodiode(Cur, raw, rawPot))
        /\ tickLog' = Append(tickLog, raw)
        /\ nops' = nops + 1
        /\ UNCHANGED <<wsLog, race>>

NextPhotodiode == PD_Command \/ PD_Tick

SpecPhotodiode == Init /\ [][NextPhotodiode]_vars

\* PD after a tick that reads raw and rawPot.
AfterPD(raw, rawPot) == update_Photodiode(Cur, raw, rawPot).PD

\* What the decay step of that tick takes off the amplitude.
DecayTerm(t) == t.polarity * MulFP(t.decay, t.current)

RECURSIVE SumTo(_, _)
SumTo(f, n) == IF n < 0 THEN 0 ELSE f[n] + SumTo(f, n - 1)

C28_RingBufferHoldsLastSamples ==
    LET k == Len(tickLog)
        N == PD.avgWindow
    IN  /\ N = PD_WindowSize
        /\ PD.counter \in 0 .. (N - 1)
        /\ PD.counter = k % N
        /\ PD.sum = SumTo(PD.values, N - 1)
        /\ \A j \in 1 .. k : j > k - N => PD.values[(j - 1) % N] = tickLog[j]
        /\ \A i \in 0 .. (N - 1) : i >= k => PD.values[i] = 0

\* The eleventh sample has gone over the first: slot 0 holds 7 where 400
\* was, and the sum has dropped the 400.
C28_Witness ==
    /\ Len(tickLog) = 11
    /\ tickLog[1] = 400 /\ tickLog[11] = 7
    /\ PD.values[0] = 7
    /\ PD.counter = 1

(***************************************************************************)
(* C29.  PD.average is the exact arithmetic mean of the 10 buffered        *)
(* samples, sum / 10 with its fractional part, whatever the buffer holds.  *)
(***************************************************************************)
C29_AverageIsExactMean ==
    PD.average * PD.avgWindow = PD.sum * FP

(***************************************************************************)
(* The noise generator on its own: NO1/NO0 lines and update_Noise calls    *)
(* with potentiometer readings below, at and above the offset, two of them *)
(* one count apart.                                                        *)
(***************************************************************************)
MaxNoiseOps == 6

NoiseLines == { <<"NO1", Arg(120 * FP)>>, <<"NO0", NoArg>> }

NoiseRaws == { 0, pot.offset + 1, 2000, 2001, bits12 }

Noise_Command ==
    /\ nops < MaxNoiseOps
    /\ \E l \in NoiseLines : Becomes(SerialFunctions(Cur, l[1], l[2]))
    /\ nops' = nops + 1

Noise_Tick ==
    /\ nops < MaxNoiseOps
    /\ \E raw \in NoiseRaws : \E z \in GaussDraws :
           Becomes(update_Noise(Cur, raw, z))
    /\ nops' = nops + 1

NextNoise == Noise_Command \/ Noise_Tick

SpecNoise == Init /\ [][NextNoise]_vars

\* The sigma one reading of the noise potentiometer stands for.
SigmaOf(raw) == MulFP(FP \div 2, PotScaled(raw - pot.offset, 25))

\* C27: in autonomous mode with the noise potentiometer above the offset,
\* update_Noise sets sigma to the new sigma, and var and the Gaussian's
\* variance to its square, when the new sigma differs from the stored one by
\* more than a thousandth; otherwise it leaves all three as they were.
C27_SigmaUpdatedOnlyOnChange ==
    noise.enable =>
        \A raw \in NoiseRaws : \A z \in GaussDraws :
            raw > pot.offset =>
                LET t  == update_Noise(Cur, raw, z).noise
                    ns == SigmaOf(raw)
                IN  IF Abs(ns - noise.sigma) > 1
                    THEN /\ t.sigma = ns
                         /\ t.var = MulFP(ns, ns)
                         /\ t.dist_variance = MulFP(ns, ns)
                    ELSE /\ t.sigma = noise.sigma
                         /\ t.var = noise.var
                         /\ t.dist_variance = noise.dist_variance

C27_Witness ==
    /\ noise.enable
    /\ noise.pot_value = 2001
    /\ noise.sigma = SigmaOf(2001)
    /\ noise.sigma - SigmaOf(2000) \in 2..5
    /\ noise.dist_variance = MulFP(noise.sigma, noise.sigma)
    /\ nops >= 2

(***************************************************************************)
(* Synapse 1 on its own: gain and decay lines first, then update_Synapse   *)
(* calls; tickLog keeps, per call, the spike input read and the gain and   *)
(* decay the call worked with.                                             *)
(***************************************************************************)
MaxSynCmds == 2

MaxSynTicks == 6

SynapseLines ==
    { <<"SG11", Arg(80 * FP)>>, <<"SG10", NoArg>>,
      <<"SD11", Arg(900 * FP)>>, <<"SD10", NoArg>> }

Syn_Command ==
    /\ nops < MaxSynCmds
    /\ tickLog = << >>
    /\ \E l \in SynapseLines : Becomes(SerialFunctions(Cur, l[1], l[2]))
    /\ nops' = nops + 1

Syn_Tick ==
    /\ Len(tickLog) < MaxSynTicks
    /\ \E spikeState \in { LOW, HIGH } :
           \E rawPot \in GainSamples : \E rawAnalog \in VmSamples :
               LET t == update_Synapse(Cur, "syn1", defaultDecay1,
                                       spikeState, rawPot, rawAnalog)
               IN  /\ GlobalsBecome(t)
                   /\ tickLog' = Append(tickLog,
                                        [spike |-> spikeState,
                                         gain  |-> t.syn1.gain,
                                         decay |-> t.syn1.decay])
    /\ nops' = nops + 1
    /\ UNCHANGED <<wsLog, race>>

NextSynapse == Syn_Command \/ Syn_Tick

SpecSynapse == Init /\ [][NextSynapse]_vars

\* g multiplied k times by the decay d, each product rounded as the code's.
RECURSIVE Decayed(_, _, _)
Decayed(g, d, k) == IF k = 0 THEN g ELSE MulFP(Decayed(g, d, k - 1), d)

\* The calls so far are one with the spike input high and then only calls
\* with it low.
OneSpikeThenSilence ==
    /\ Len(tickLog) >= 1
    /\ tickLog[1].spike = HIGH
    /\ \A j \in 2..Len(tickLog) : tickLog[j].spike = LOW

\* C22 as stated: from current 0, after one tick with the spike input high
\* and gain g and then n ticks with it low, the current is g * decay^n.
C22_CurrentDecaysFromGain ==
    OneSpikeThenSilence =>
        syn1.current = Decayed(tickLog[1].gain, syn1.decay, Len(tickLog) - 1)

\* C22, amended: the tick that adds the gain applies the decay too, so after
\* the high tick and n low ticks the current is g * decay^(n + 1).
C22_CurrentDecaysFromFirstTick ==
    OneSpikeThenSilence =>
        syn1.current = Decayed(tickLog[1].gain, syn1.decay, Len(tickLog))

C22_Witness ==
    /\ OneSpikeThenSilence
    /\ Len(tickLog) = 4
    /\ ~syn1.gain_enable /\ tickLog[1].gain = 20 * FP
    /\ ~syn1.decay_enable /\ syn1.decay = 900
    /\ syn1.current = Decayed(20 * FP, 900, 4)
    /\ syn1.current < Decayed(20 * FP, 900, 3)

\* C30: the gain is added once per rising edge of the spike input: a call
\* that reads the input high after a call that read it high adds nothing, it
\* only applies the decay.
C30_GainAddedOncePerEdge ==
    syn1.spikeState = HIGH =>
        \A rawPot \in GainSamples : \A rawAnalog \in VmSamples :
            LET t == update_Synapse(Cur, "syn1", defaultDecay1,
                                    HIGH, rawPot, rawAnalog).syn1
            IN  t.current = MulFP(syn1.current, t.decay)

(***************************************************************************)
(* The period of the duty cycle (C23 .. C26), under SpecStim.              *)
(***************************************************************************)
\* The tick that starts in the current state is an Auto-mode tick on which
\* the counter wraps.
WrapsNow == stim.custom_enable /\ stim.counter + 1 >= stim.steps

\* Frequencies held in stim.freq by FR1, and the state after FR1 f and a
\* tick.
StimFreqs == { -100, -50, 0, 50, 100 }

AfterFR1Tick(f, rawStr, rawFreq) ==
    update_StimulusOutput(StimFre_on(Cur, Arg(f * FP)), rawStr, rawFreq).stim

\* Readings of the frequency potentiometer.
FreqPotReadings == { 0, 1000, bits12 \div 2, 3000, bits12 }

\* C23: after every wraparound stim.steps is at least stim.dutyCycle_Min
\* (10), whether stim.freq was sampled from the potentiometer or set by FR1.
C23_StepsAtLeastFloor ==
    WrapsNow =>
        \A rawStr \in StimSamples : \A rawFreq \in StimSamples :
            AfterTick(rawStr, rawFreq).steps >= stim.dutyCycle_Min

C25_StepsChangeOnlyAtWrap ==
    /\ \A line \in StimLines :
           /\ BySerial(Cur, line[1], line[2]).stim.steps = stim.steps
           /\ ByWifi(Cur, line[1], line[2]).stim.steps = stim.steps
    /\ \A rawStr \in StimSamples : \A rawFreq \in StimSamples :
           LET t == AfterTick(rawStr, rawFreq)
           IN  /\ t.steps # stim.steps => WrapsNow /\ t.counter = 0
               /\ WrapsNow => t.steps = StepsOf(t)

C25_Witness ==
    /\ stim.custom_enable /\ ~stim.frequency_enable
    /\ stim.freq = -101
    /\ stim.steps = 10
    /\ stim.counter = 2

MaxClampOps == 3

ClampLines == { <<"IC1", Arg(120 * FP)>>, <<"IC0", NoArg>> }

\* Readings of the clamp potentiometer: the ends of the scale, mid-scale,
\* the two edges of the dead zone and one reading in every 128.
ClampReadings ==
    LET mid == bits12 \div 2
    IN  { 0, mid - pot.offset - 1, mid - pot.offset, mid,
          mid + pot.offset, mid + pot.offset + 1, bits12 }
        \cup { r \in 0 .. bits12 : r % 128 = 64 }

Clamp_Command ==
    /\ nops < MaxClampOps
    /\ \E l \in ClampLines : Becomes(SerialFunctions(Cur, l[1], l[2]))
    /\ nops' = nops + 1

Clamp_Tick ==
    /\ nops < MaxClampOps
    /\ \E raw \in ClampReadings : Becomes(update_InputCurrent(Cur, raw))
    /\ nops' = nops + 1

NextClamp == Clamp_Command \/ Clamp_Tick

SpecClamp == Init /\ [][NextClamp]_vars

\* The clamp current of the reading r, in the current state.
ClampOf(r) == update_InputCurrent(Cur, r).IC.current_clamp

\* The value x (thousandths) is the quotient e / (bits12 / 100), to within
\* the last digit kept.
IsScaled(x, e) == Abs(x * bits12 - e * 100 * FP) < bits12

\* C31: in autonomous mode, with p = r - 2047, the clamp current of every
\* reading r in 0 .. 4095 is 0 exactly when |p| <= offset, (p - offset) /
\* scale when p >= offset and (p + offset) / scale when p <= -offset; it has
\* the sign of p and does not fall when r rises.
C31_DeadZoneThenLinear ==
    IC.enable =>
        \A r \in 0 .. bits12 :
            LET p == r - bits12 \div 2
                x == ClampOf(r)
            IN  /\ x = 0 <=> Abs(p) <= pot.offset
                /\ p >= pot.offset => IsScaled(x, p - pot.offset)
                /\ p <= -pot.offset => IsScaled(x, p + pot.offset)
                /\ p > 0 => x >= 0
                /\ p < 0 => x <= 0
                /\ r < bits12 => x <= ClampOf(r + 1)

C31_Witness ==
    /\ IC.enable
    /\ IC.pot_value = -(pot.offset + 1) * FP
    /\ IC.current_clamp < 0
    /\ nops = 3

(***************************************************************************)
(* The spike output on its own: the indicator lines and update_Spike.  The *)
(* integration step that sets neuron.spike and neuron.v is not among the   *)
(* sources: each tick draws what it left from NeuronOutcomes.  A run keeps *)
(* to one reading of update_Spike, held in tickLog from the first tick on. *)
(***************************************************************************)
MaxSpikeOps == 4

SpikeLines == { "LED1", "LED0", "CON", "BZ1", "BZ0" }

\* What the integration step can leave: a spike with v back at c, or no
\* spike with v at rest, near the threshold, or below Vm_min.
NeuronOutcomes ==
    { [spike |-> TRUE,  v |-> neuron.c],
      [spike |-> FALSE, v |-> neuron.v_rest],
      [spike |-> FALSE, v |-> -40 * FP],
      [spike |-> FALSE, v |-> neuron.Vm_min - 10 * FP] }

\* The state update_Spike starts from when the integration step left o.
Integrated(o) == [Cur EXCEPT !.neuron.spike = o.spike, !.neuron.v = o.v]

Spike_Command ==
    /\ nops < MaxSpikeOps
    /\ \E cmd \in SpikeLines : Becomes(SerialFunctions(Cur, cmd, NoArg))
    /\ nops' = nops + 1

Spike_Tick ==
    /\ nops < MaxSpikeOps
    /\ \E reading \in SpikeReadings : \E o \in NeuronOutcomes :
           /\ tickLog \in { << >>, << reading >> }
           /\ GlobalsBecome(update_SpikeAs(Integrated(o), reading))
           /\ tickLog' = << reading >>
    /\ nops' = nops + 1
    /\ UNCHANGED <<wsLog, race>>

NextSpike == Spike_Command \/ Spike_Tick

SpecSpike == Init /\ [][NextSpike]_vars

\* The readings of update_Spike the run may still be built with.
ReadingsLeft == { r \in SpikeReadings : tickLog \in { << >>, << r >> } }

\* C32: a tick with neuron.spike true leaves v_out = Vm_peak and the axon
\* digital output HIGH, a tick with it false leaves v_out = v and the axon
\* digital output LOW, whatever Buzzer_enable and LED_enable are.
C32_SpikeDrivesAxon ==
    \A reading \in ReadingsLeft : \A o \in NeuronOutcomes :
        LET t == update_SpikeAs(Integrated(o), reading)
        IN  IF o.spike
            THEN t.neuron.v_out = neuron.Vm_peak /\ t.pin.axon_d = HIGH
            ELSE t.neuron.v_out = o.v /\ t.pin.axon_d = LOW

C36_LastLevelsTrackChannels ==
    /\ led_r_last = pin.led_r
    /\ led_g_last = pin.led_g
    /\ led_b_last = pin.led_b
    /\ LED_enable =>
           \A o \in NeuronOutcomes :
               LET t == update_SpikeAs(Integrated(o), "else of spike")
               IN  t.pin.led_r = IF o.spike THEN ledc_Max
                                 ELSE LedLevel(t.neuron)

(***************************************************************************)
(* C34.  A NEU command, by either transport, changes the neuron's a, b, c, *)
(* d, v_rest, v, u and currentModel and nothing else: the autonomy flags,  *)
(* the parameters set by command, the synapse currents, the photodiode's   *)
(* amplitude and buffer and the stimulus counter and steps stay as they    *)
(* were.  Checked under SpecTelemetry, where NEU follows and precedes      *)
(* IC1, ST1 and the ticks of the synapse and of the stimulus.              *)
(***************************************************************************)
PresetFields == { "a", "b", "c", "d", "v_rest", "v", "u" }

C34_PresetChangesNeuronOnly ==
    \A arg \in ArgsOf("NEU") :
        \A t \in { BySerial(Cur, "NEU", arg), ByWifi(Cur, "NEU", arg) } :
            /\ \A g \in DOMAIN Cur \ { "neuron", "currentModel" } :
                   t[g] = Cur[g]
            /\ \A f \in DOMAIN neuron \ PresetFields :
                   t.neuron[f] = neuron[f]

C34_Witness ==
    /\ currentModel # defaultModel
    /\ neuron.v = neuron.v_rest
    /\ ~IC.enable /\ IC.current_clamp = 120 * FP
    /\ syn1.current # 0
    /\ stim.steps > 0

(***************************************************************************)
(* C39.  After a DT command with any integer argument, by either           *)
(* transport, timing.step_us lies within 1000 .. 1000000 microseconds.     *)
(***************************************************************************)
\* The uint32_t u, kept as two 16-bit halves, lies within 1000 .. 1000000.
InPeriodRange(u) ==
    /\ u.hi < 16
    /\ u.hi * Half + u.lo \in 1000 .. 1000000

C39_PeriodWithinRange ==
    \A arg \in ArgsOf("DT") :
        arg.has =>
            /\ InPeriodRange(ByWifi(Cur, "DT", arg).timing.step_us)
            /\ InPeriodRange(BySerial(Cur, "DT", arg).timing.step_us)

(***************************************************************************)
(* C35.  A malformed network envelope (a text that is no JSON, a document  *)
(* of unknown or missing type, a scmd with no cmd) changes nothing: no     *)
(* parameter, no flag, neither stream setting, and nothing is sent in      *)
(* reply.  Checked under SpecStream.                                       *)
(***************************************************************************)
C35_MalformedEnvelopeDropped ==
    \A doc \in MalformedDocs : handleCommandJson(Cur, doc) = Cur

\* Streaming is on, the clamp was set over the network and one message was
\* sent, the two-element pong (a sample frame has 16 bytes or more).
C35_Witness ==
    /\ wifiStream.enabled /\ wifiStream.decim = 3
    /\ ~IC.enable /\ IC.current_clamp = 120 * FP
    /\ Len(wsOut) = 1 /\ Len(wsOut[1]) = 2
    /\ nops = 5

(***************************************************************************)
(* C37.  A pending manual trigger is consumed by the first tick after TR   *)
(* in either stimulus mode: no tick ends with serialTrigger_enable set.    *)
(* Checked under SpecStim.                                                 *)
(***************************************************************************)
C37_TriggerConsumedByNextTick ==
    \A rawStr \in StimSamples : \A rawFreq \in StimSamples :
        ~AfterTick(rawStr, rawFreq).serialTrigger_enable

(***************************************************************************)
(* C38.  At the end of every tick, after any sequence of ticks, SC1/SC0    *)
(* and FR1/FR0, stim.counter is at least 0, and below stim.steps whenever  *)
(* stim.steps is at least 1.  Checked under SpecStim.                      *)
(***************************************************************************)
C38_CounterBelowSteps ==
    \A rawStr \in StimSamples : \A rawFreq \in StimSamples :
        LET t == AfterTick(rawStr, rawFreq)
        IN  /\ t.counter >= 0
            /\ t.steps >= 1 => t.counter < t.steps

\* A cycle of 5 ticks (FR1 -101), interrupted by SC1 and resumed by SC0, is
\* in its last tick.
C38_Witness ==
    /\ stim.custom_enable /\ ~stim.frequency_enable
    /\ stim.freq = -101
    /\ stim.steps = 5 /\ stim.counter = 4
    /\ stim.value_custom = 120

(***************************************************************************)
(* The stimulus input current: stimulus lines, update_StimulusOutput with  *)
(* both potentiometers at full scale, and update_StimulusCurrentIn.        *)
(***************************************************************************)
MaxCurrentInOps == 7

CurrentInLines ==
    { <<"FR1", Arg(-101 * FP)>>, <<"ST1", Arg(50 * FP)>>,
      <<"ST1", Arg(-50 * FP)>>, <<"SC1", Arg(0)>>, <<"SC1", Arg(120 * FP)>>,
      <<"SC1", Arg(-120 * FP)>>, <<"SC0", NoArg>> }

CurrentInSamples == { 0, 1000 }

CurrentIn_Command ==
    /\ nops < MaxCurrentInOps
    /\ \E l \in CurrentInLines : Becomes(SerialFunctions(Cur, l[1], l[2]))
    /\ nops' = nops + 1

CurrentIn_StimulusOutput ==
    /\ nops < MaxCurrentInOps
    /\ Becomes(update_StimulusOutput(Cur, bits12, bits12))
    /\ nops' = nops + 1

CurrentIn_Tick ==
    /\ nops < MaxCurrentInOps
    /\ \E raw \in CurrentInSamples : Becomes(update_StimulusCurrentIn(Cur, raw))
    /\ nops' = nops + 1

NextCurrentIn ==
    CurrentIn_Command \/ CurrentIn_StimulusOutput \/ CurrentIn_Tick

SpecCurrentIn == Init /\ [][NextCurrentIn]_vars

\* C40: after update_StimulusCurrentIn, IC.current is 0 on an Auto-mode tick
\* with the stimulus off (stim.state = 0) and on a Custom-mode tick with
\* value_custom = 0, whatever the Current-In sample, and the total current
\* computed next holds nothing of the stimulus.
C40_IdleStimulusGivesNoCurrent ==
    \A raw \in CurrentInSamples :
        LET t == update_StimulusCurrentIn(Cur, raw)
            idle == IF stim.custom_enable THEN stim.state = 0
                    ELSE stim.value_custom = 0
        IN  idle =>
                /\ t.IC.current = 0
                /\ t.IC.value_currentIn = raw * FP
                /\ compute_AllCurrent(t).neuron.total_current
                       = IC.current_clamp + PD.current + syn1.current
                         + syn2.current + noise.current

\* The stimulus is in the off phase of a cycle with strength 50, and the
\* Current-In sample 1000 was read.
C40_Witness ==
    /\ stim.custom_enable
    /\ stim.str_analog = 50 /\ stim.state = 0 /\ stim.counter = 3
    /\ IC.value_currentIn = 1000 * FP
    /\ IC.current = 0

=============================================================================
